---------------------------- MODULE Spec2Model ----------------------------
(***************************************************************************)
(* The OpenGL ES 2 renderer of src/render/opengles2/SDL_render_gles2.c:    *)
(* the shader cache, the program cache (LRU, capacity 8), the program      *)
(* selector, the draw emitters and the context/viewport binding.           *)
(*                                                                         *)
(* Cache entries live on a heap: a function from addresses to records,     *)
(* whose domain is the set of allocated addresses.  Pointers are           *)
(* addresses, NULL is 0.  The lists are modelled field by field (prev,     *)
(* next, head, tail), every assignment of the C code in its order.         *)
(***************************************************************************)
EXTENDS Integers, Sequences, FiniteSets, TLC

NULL == 0

\* #define GLES2_MAX_CACHED_PROGRAMS 8
GLES2_MAX_CACHED_PROGRAMS == 8

(***************************************************************************)
(* Bounds of the model.                                                    *)
(***************************************************************************)
\* Blend modes 1..NumBlend have shaders of all three kinds in the table.
NumBlend == 8
\* Textures of the application carry blend modes 1..NumTexBlend.
NumTexBlend == 2
\* Blend modes 1..NumDrawBlend are the ones the application of Spec draws
\* with (SpecLRU's application uses all of 1..NumBlend).
NumDrawBlend == 1
\* Program-cache hits (promotions) and evictions in one run of SpecLRU.
MaxPromotions == 1
MaxEvictions == 2
\* Failed links in one run of SpecLRU.
MaxFailures == 1
\* Extra heap slots per program pair (entries leaked by the list code stay
\* allocated; SDL_calloc fails when no slot is left).
MaxDup == 1

\* Rectangles of one GLES2_RenderFillRects call.
NumRects == 2

(***************************************************************************)
(* The shader table (SDL_shaders_gles2.c is not part of the sources; it is *)
(* modelled from the specification: per shader kind and blend mode, a      *)
(* list of candidate variants, each tagged with a format).                 *)
(***************************************************************************)
GLES2_SHADER_VERTEX_DEFAULT == "VERTEX_DEFAULT"
GLES2_SHADER_FRAGMENT_SOLID_SRC == "FRAGMENT_SOLID_SRC"
GLES2_SHADER_FRAGMENT_TEXTURE_SRC == "FRAGMENT_TEXTURE_SRC"

GLES2_IMAGESOURCE_SOLID == "SOLID"
GLES2_IMAGESOURCE_TEXTURE == "TEXTURE"

\* (GLenum)-1 tags a source-form variant, compiled at run time.
GLES2_SOURCE_SHADER == -1
\* #define GL_NVIDIA_PLATFORM_BINARY_NV 0x890B
GL_NVIDIA_PLATFORM_BINARY_NV == 35083
\* A binary format that no modelled platform advertises.
OtherBinaryFormat == 35084
\* A binary format a platform advertises and no shader of the table has.
PlatformOnlyFormat == 35085

\* A blend mode for which the table defines no fragment shader.
BlendUndefined == 0
\* A blend mode whose fragment shaders exist in one binary format only.
BlendBinaryOnly == NumBlend + 1

BlendModes == 0 .. (NumBlend + 1)

TypeIndex(type) ==
    CASE type = GLES2_SHADER_VERTEX_DEFAULT -> 0
      [] type = GLES2_SHADER_FRAGMENT_SOLID_SRC -> 1
      [] type = GLES2_SHADER_FRAGMENT_TEXTURE_SRC -> 2

\* A shader variant (GLES2_ShaderInstance) is <<type, blendMode, format>>;
\* variant tables are static, so identity is equality of the triple.
Instance(type, blendMode, format) == <<type, blendMode, format>>

InstanceFormat(instance) == instance[3]

\* const GLES2_ShaderInstance *instance = NULL
NoInstance == <<>>

\* const GLES2_Shader *GLES2_GetShader(type, blendMode): the candidate list,
\* or no shader.  Binary candidate first, source candidate second.  The
\* default vertex shader is one shader for every blend mode.
GLES2_GetShader(type, blendMode) ==
    IF type # GLES2_SHADER_VERTEX_DEFAULT /\ blendMode = BlendUndefined
    THEN [defined |-> FALSE, instances |-> <<>>]
    ELSE IF type # GLES2_SHADER_VERTEX_DEFAULT /\ blendMode = BlendBinaryOnly
    THEN [defined |-> TRUE,
          instances |-> <<Instance(type, blendMode, OtherBinaryFormat)>>]
    ELSE IF type = GLES2_SHADER_VERTEX_DEFAULT
    THEN [defined |-> TRUE,
          instances |-> <<Instance(type, BlendUndefined, GL_NVIDIA_PLATFORM_BINARY_NV),
                          Instance(type, BlendUndefined, GLES2_SOURCE_SHADER)>>]
    ELSE [defined |-> TRUE,
          instances |-> <<Instance(type, blendMode, GL_NVIDIA_PLATFORM_BINARY_NV),
                          Instance(type, blendMode, GLES2_SOURCE_SHADER)>>]

(***************************************************************************)
(* The heap.                                                               *)
(***************************************************************************)
Free(heap, addr) == [a \in (DOMAIN heap) \ {addr} |-> heap[a]]

Alloc(heap, addr, rec) == [a \in (DOMAIN heap) \cup {addr} |->
                              IF a = addr THEN rec ELSE heap[a]]

\* Shader entries: the address is taken from the variant (no freed address
\* is ever read again, so which free address SDL_calloc returns cannot be
\* observed), the first free one of MaxDup + 1 slots; NULL when all are
\* taken.
AddrStride == 3 * (NumBlend + 2) * 2

ShaderAddr(instance) ==
    1 + 2 * (TypeIndex(instance[1]) * (NumBlend + 2) + instance[2])
      + (IF instance[3] = GLES2_SOURCE_SHADER THEN 1 ELSE 0)

ShaderSlot(sh, instance) ==
    LET free == {k \in 0 .. MaxDup :
                    (ShaderAddr(instance) + k * AddrStride) \notin DOMAIN sh}
    IN IF free = {} THEN NULL
       ELSE ShaderAddr(instance)
              + (CHOOSE k \in free : \A j \in free : k <= j) * AddrStride

\* Program entries: the address is taken from the fragment shader's, the
\* first free one of MaxDup + 1 slots; NULL when all are taken.
ProgAddr(progs, fragment) ==
    LET free == {k \in 0 .. MaxDup : (fragment + k * AddrStride) \notin DOMAIN progs}
    IN IF free = {} THEN NULL
       ELSE fragment + (CHOOSE k \in free : \A j \in free : k <= j) * AddrStride


(***************************************************************************)
(* State.                                                                  *)
(***************************************************************************)
VARIABLES
    rdata,              \* GLES2_DriverContext: context, shader_formats,
                        \* shader_cache, program_cache, current_program, updateSize
    shaders,            \* heap of GLES2_ShaderCacheEntry
    progs,              \* heap of GLES2_ProgramCacheEntry
    SDL_CurrentContext, \* static SDL_GLContext SDL_CurrentContext
    window,             \* the SDL_Window's size, what SDL_GetWindowSize returns
    gl,                 \* GL state: the viewport, the projection uniform last uploaded
    pc,                 \* "ready" between operations, "hung" inside a loop that never ends
    last,               \* what the last operation did (its inputs, results, GL calls)
    lru,                \* history: cached program entries by latest acquire, newest first
    blendsSeen,         \* history: number of (image source, blend mode) pairs drawn with so far
    promotions,         \* history: number of program-cache hits so far
    evictions,          \* history: number of program-cache evictions so far
    failures            \* history: number of failures injected so far

vars == <<rdata, shaders, progs, SDL_CurrentContext, window, gl, pc, last, lru,
          blendsSeen, promotions, evictions, failures>>

\* Window sizes: one the window is created with, others it is resized to.
WindowSize(w, h) == [w |-> w, h |-> h]

DefaultSize == WindowSize(800, 600)

WindowSizes == {DefaultSize, WindowSize(640, 480), WindowSize(3, 2)}

\* The projection uniforms, by program: no program has one yet.
NoProjection == <<>>

\* The renderer's own GL context, what SDL_GL_CreateContext returned.
Context == 1

\* The GL context of another renderer of the process.
OtherContext == 2

\* A program of the renderer's context that no entry of its cache names:
\* one deleted while in use, or one another renderer has created there.
UncachedProgram == -1

\* The walk of a list loop that comes back to an entry it has visited never ends.
HANG == -1

\* The memory an operation works on: the driver data, both heaps, and the
\* log of the operation so far.
Mem(rd, sh, pr, cur, win, state) ==
    [rdata |-> rd, shaders |-> sh, progs |-> pr, SDL_CurrentContext |-> cur,
     window |-> win, gl |-> state,
     calls |-> <<>>, evicted |-> <<>>, freedShaders |-> {}, acquired |-> NULL,
     points |-> {}, hung |-> FALSE]

Call(m, name) == [m EXCEPT !.calls = Append(@, name)]

Calls(m, names) == [m EXCEPT !.calls = @ \o names]

\* The operation has come to a point where a call can fail.
Reach(m, points) == [m EXCEPT !.points = @ \cup points]

(***************************************************************************)
(* GLES2_EvictShader, lines 633-650.                                       *)
(***************************************************************************)
GLES2_EvictShader(m, entry) ==
    LET s0 == m.shaders
        s1 == IF s0[entry].next # NULL
              THEN [s0 EXCEPT ![s0[entry].next].prev = s0[entry].prev] ELSE s0
        s2 == IF s1[entry].prev # NULL
              THEN [s1 EXCEPT ![s1[entry].prev].next = s1[entry].next] ELSE s1
        head == IF m.rdata.shader_cache.head = entry
                THEN s2[entry].next ELSE m.rdata.shader_cache.head
        m1 == [m EXCEPT !.rdata.shader_cache.head = head,
                        !.rdata.shader_cache.count = @ - 1,
                        !.shaders = Free(s2, entry),
                        !.freedShaders = @ \cup {entry}]
    IN Call(m1, "glDeleteShader")

(***************************************************************************)
(* GLES2_CacheShader, lines 542-631.                                       *)
(***************************************************************************)
\* Faulty variant of lines 560-572: the first candidate is taken, whatever
\* the platform supports.
FirstCandidate(shader, formats, i, instance) == shader.instances[1]

\* Lines 560-572: for each candidate i, for each platform format j; a match
\* assigns instance and leaves the inner loop only.
RECURSIVE FindInstance(_, _, _, _)
FindInstance(shader, formats, i, instance) ==
    IF i > Len(shader.instances) THEN instance
    ELSE LET match == \E j \in 1 .. Len(formats) :
                          InstanceFormat(shader.instances[i]) = formats[j]
         IN FindInstance(shader, formats, i + 1,
                         IF match THEN shader.instances[i] ELSE instance)

\* Faulty variant of lines 579-588: no entry is found.
ScanFindsNothing(sh, entry, instance, seen) == NULL

\* Lines 579-588: while (entry) { if (entry->instance == instance) break; ... }
RECURSIVE ScanShaders(_, _, _, _)
ScanShaders(sh, entry, instance, seen) ==
    IF entry = NULL THEN NULL
    ELSE IF sh[entry].instance = instance THEN entry
    ELSE IF entry \in seen THEN HANG
    ELSE ScanShaders(sh, sh[entry].next, instance, seen \cup {entry})

\* Faulty variant of lines 590-630: a shader that failed to compile is
\* linked into the cache all the same.
CacheShaderKeepsFailed(m, type, blendMode, allocFails, compileFails) ==
    LET shader == GLES2_GetShader(type, blendMode)
        instance == FindInstance(shader, m.rdata.shader_formats, 1, NoInstance)
        found == ScanShaders(m.shaders, m.rdata.shader_cache.head, instance, {})
        addr == ShaderSlot(m.shaders, instance)
        head == m.rdata.shader_cache.head
        new == [instance |-> instance, type |-> type, references |-> 0,
                prev |-> NULL, next |-> head]
        s1 == Alloc(m.shaders, addr, new)
        s2 == IF head # NULL THEN [s1 EXCEPT ![head].prev = addr] ELSE s1
        who == IF type = GLES2_SHADER_VERTEX_DEFAULT THEN "vertex" ELSE "fragment"
        mR == Reach(m, {who \o "_alloc", who \o "_compile"})
        mC == Call(Call(mR, "glCreateShader"),
                   IF InstanceFormat(instance) = GLES2_SOURCE_SHADER
                   THEN "glCompileShader" ELSE "glShaderBinary")
    IN IF ~shader.defined THEN [m |-> m, entry |-> NULL, error |-> "UnsupportedShader"]
       ELSE IF instance = NoInstance
       THEN [m |-> m, entry |-> NULL, error |-> "UnsupportedPlatform"]
       ELSE IF found = HANG
       THEN [m |-> [m EXCEPT !.hung = TRUE], entry |-> NULL, error |-> "hang"]
       ELSE IF found # NULL THEN [m |-> m, entry |-> found, error |-> "none"]
       ELSE IF allocFails \/ addr = NULL
       THEN [m |-> mR, entry |-> NULL, error |-> "OutOfMemory"]
       ELSE [m |-> [mC EXCEPT !.shaders = s2,
                              !.rdata.shader_cache.head = addr,
                              !.rdata.shader_cache.count = @ + 1],
             entry |-> IF compileFails THEN NULL ELSE addr,
             error |-> IF compileFails THEN "ShaderCompileError" ELSE "none"]

\* allocFails: SDL_calloc returns NULL; compileFails: glGetError() reports
\* an error or the compile status is false.
GLES2_CacheShader(m, type, blendMode, allocFails, compileFails) ==
    LET shader == GLES2_GetShader(type, blendMode)
        instance == FindInstance(shader, m.rdata.shader_formats, 1, NoInstance)
        found == ScanShaders(m.shaders, m.rdata.shader_cache.head, instance, {})
        addr == ShaderSlot(m.shaders, instance)
        head == m.rdata.shader_cache.head
        new == [instance |-> instance, type |-> type, references |-> 0,
                prev |-> NULL, next |-> head]
        s1 == Alloc(m.shaders, addr, new)
        s2 == IF head # NULL THEN [s1 EXCEPT ![head].prev = addr] ELSE s1
        who == IF type = GLES2_SHADER_VERTEX_DEFAULT THEN "vertex" ELSE "fragment"
        mR == Reach(m, {who \o "_alloc", who \o "_compile"})
        mC == Call(Call(mR, "glCreateShader"),
                   IF InstanceFormat(instance) = GLES2_SOURCE_SHADER
                   THEN "glCompileShader" ELSE "glShaderBinary")
    IN IF ~shader.defined THEN [m |-> m, entry |-> NULL, error |-> "UnsupportedShader"]
       ELSE IF instance = NoInstance
       THEN [m |-> m, entry |-> NULL, error |-> "UnsupportedPlatform"]
       ELSE IF found = HANG
       THEN [m |-> [m EXCEPT !.hung = TRUE], entry |-> NULL, error |-> "hang"]
       ELSE IF found # NULL THEN [m |-> m, entry |-> found, error |-> "none"]
       ELSE IF allocFails \/ addr = NULL
       THEN [m |-> mR, entry |-> NULL, error |-> "OutOfMemory"]
       ELSE IF compileFails
       THEN [m |-> Call(mC, "glDeleteShader"), entry |-> NULL,
             error |-> "ShaderCompileError"]
       ELSE [m |-> [mC EXCEPT !.shaders = s2,
                              !.rdata.shader_cache.head = addr,
                              !.rdata.shader_cache.count = @ + 1],
             entry |-> addr, error |-> "none"]

(***************************************************************************)
(* GLES2_CacheProgram, lines 434-540.                                      *)
(***************************************************************************)
\* Lines 443-450.
RECURSIVE ScanPrograms(_, _, _, _, _)
ScanPrograms(pr, entry, vertex, fragment, seen) ==
    IF entry = NULL THEN NULL
    ELSE IF pr[entry].vertex_shader = vertex /\ pr[entry].fragment_shader = fragment
    THEN entry
    ELSE IF entry \in seen THEN HANG
    ELSE ScanPrograms(pr, pr[entry].next, vertex, fragment, seen \cup {entry})

\* Lines 453-463: the hit moves the entry to the head of the list.
PromoteProgram(m, entry) ==
    LET head == m.rdata.program_cache.head
        p0 == m.progs
        p1 == IF p0[entry].next # NULL
              THEN [p0 EXCEPT ![p0[entry].next].prev = p0[entry].prev] ELSE p0
        p2 == IF p1[entry].prev # NULL
              THEN [p1 EXCEPT ![p1[entry].prev].next = p1[entry].next] ELSE p1
        p3 == [p2 EXCEPT ![entry].prev = NULL]
        p4 == [p3 EXCEPT ![entry].next = head]
        p5 == [p4 EXCEPT ![head].prev = entry]
    IN IF m.rdata.program_cache.count > 1
       THEN [m EXCEPT !.progs = p5, !.rdata.program_cache.head = entry]
       ELSE m

\* Faulty variant of lines 527-532: the shader is never evicted.
ReleaseOnly(m, shaderEntry) == [m EXCEPT !.shaders[shaderEntry].references = @ - 1]

\* Faulty variant of lines 527-532: the reference is kept.
KeepReference(m, shaderEntry) == m

\* Faulty variant of lines 527-532: the shader is evicted whatever its
\* reference count.
ReleaseAndEvict(m, shaderEntry) ==
    GLES2_EvictShader([m EXCEPT !.shaders[shaderEntry].references = @ - 1], shaderEntry)

\* Lines 527-532, for one shader of the tail entry.
ReleaseShader(m, shaderEntry) ==
    LET m1 == [m EXCEPT !.shaders[shaderEntry].references = @ - 1]
    IN IF m1.shaders[shaderEntry].references <= 0
       THEN GLES2_EvictShader(m1, shaderEntry) ELSE m1

\* Lines 533-537: the tail pointer steps back, the entry after the new
\* tail is freed, the list ends at the new tail.
UnlinkTail(m, tail, newTail, freed) ==
    [m EXCEPT !.progs = [(IF freed # NULL THEN Free(m.progs, freed) ELSE m.progs)
                            EXCEPT ![newTail].next = NULL],
              !.rdata.program_cache.tail = newTail,
              !.rdata.program_cache.count = @ - 1,
              !.evicted = Append(@, [entry |-> tail, freed |-> freed,
                                     vertex_shader |-> m.progs[tail].vertex_shader,
                                     fragment_shader |-> m.progs[tail].fragment_shader])]

\* glDeleteProgram(entry->id): the program's uniforms go with it; a program
\* in use stays in use, with no entry naming it. With another context current
\* the call does not come to the renderer's programs.
DeleteProgram(m, entry) ==
    IF m.gl.context # m.rdata.context THEN Call(m, "glDeleteProgram")
    ELSE [Call(m, "glDeleteProgram")
             EXCEPT !.gl.u_projection = Free(@, entry),
                    !.gl.program = IF @ = entry THEN UncachedProgram ELSE @]

\* Faulty variant of lines 524-538: the overflowing cache is left as it is.
EvictNothing(m) == m

\* Lines 524-538, the body of the if.
EvictTailProgram(m) ==
    LET tail == m.rdata.program_cache.tail
        newTail == m.progs[tail].prev
    IN UnlinkTail(DeleteProgram(ReleaseShader(ReleaseShader(m, m.progs[tail].vertex_shader),
                                              m.progs[tail].fragment_shader),
                                tail),
                  tail, newTail, m.progs[newTail].next)

\* Faulty variant of lines 524-525: the tail is evicted when the cache is
\* full.
EvictAtCapacity(m) ==
    IF m.rdata.program_cache.count >= GLES2_MAX_CACHED_PROGRAMS
    THEN EvictTailProgram(m) ELSE m

\* Lines 524-525.
EvictOverflow(m) ==
    IF m.rdata.program_cache.count > GLES2_MAX_CACHED_PROGRAMS
    THEN EvictTailProgram(m) ELSE m

\* Lines 507-522: link the new entry in at the head, count it, take the
\* references.
InsertProgram(m, addr, vertex, fragment, blendMode) ==
    LET head == m.rdata.program_cache.head
        new == [vertex_shader |-> vertex, fragment_shader |-> fragment,
                blend_mode |-> blendMode, prev |-> NULL, next |-> head]
        p1 == Alloc(m.progs, addr, new)
    IN [m EXCEPT !.progs = IF head # NULL THEN [p1 EXCEPT ![head].prev = addr] ELSE p1,
                 !.rdata.program_cache.tail = IF head # NULL THEN @ ELSE addr,
                 !.rdata.program_cache.head = addr,
                 !.rdata.program_cache.count = @ + 1,
                 !.shaders[vertex].references = @ + 1,
                 !.shaders[fragment].references = @ + 1,
                 !.acquired = addr]

\* Faulty variant of lines 467-538: a program that failed to link is cached
\* all the same.
CreateProgramKeepsFailed(m, addr, vertex, fragment, blendMode, allocFails, linkFails) ==
    IF allocFails \/ addr = NULL
    THEN [m |-> m, entry |-> NULL, how |-> "OutOfMemory"]
    ELSE [m |-> EvictOverflow(InsertProgram(
                    Calls(m, <<"glCreateProgram", "glLinkProgram">>),
                    addr, vertex, fragment, blendMode)),
          entry |-> IF linkFails THEN NULL ELSE addr,
          how |-> IF linkFails THEN "ProgramLinkError" ELSE "miss"]

\* glCreateProgram, line 480: the new program's uniforms have no value yet.
NewProgram(m, addr) == [m EXCEPT !.gl.u_projection = Free(@, addr)]

\* Lines 467-538: no entry was found.
CreateProgram(m, addr, vertex, fragment, blendMode, allocFails, linkFails) ==
    IF allocFails \/ addr = NULL
    THEN [m |-> m, entry |-> NULL, how |-> "OutOfMemory"]
    ELSE IF linkFails
    THEN [m |-> Calls(m, <<"glCreateProgram", "glLinkProgram", "glDeleteProgram">>),
          entry |-> NULL, how |-> "ProgramLinkError"]
    ELSE [m |-> EvictOverflow(InsertProgram(
                    NewProgram(Calls(m, <<"glCreateProgram", "glLinkProgram">>), addr),
                    addr, vertex, fragment, blendMode)),
          entry |-> addr, how |-> "miss"]

\* Lines 443-465 and on: found is where the scan of the list stopped.
CacheProgramFound(m, found, vertex, fragment, blendMode, allocFails, linkFails) ==
    IF found = HANG
    THEN [m |-> [m EXCEPT !.hung = TRUE], entry |-> NULL, how |-> "hang"]
    ELSE IF found # NULL
    THEN [m |-> [PromoteProgram(m, found) EXCEPT !.acquired = found],
          entry |-> found, how |-> "hit"]
    ELSE CreateProgram(Reach(m, {"program_alloc", "program_link"}),
                       ProgAddr(m.progs, fragment), vertex, fragment, blendMode,
                       allocFails, linkFails)

GLES2_CacheProgram(m, vertex, fragment, blendMode, allocFails, linkFails) ==
    CacheProgramFound(m,
        ScanPrograms(m.progs, m.rdata.program_cache.head, vertex, fragment, {}),
        vertex, fragment, blendMode, allocFails, linkFails)

(***************************************************************************)
(* GLES2_SetOrthographicProjection, lines 719-759.                         *)
(***************************************************************************)
\* GLfloat values as exact fractions num / den, den > 0.
Rat(num, den) == [num |-> num, den |-> den]

RatZero == Rat(0, 1)

RatOne == Rat(1, 1)

\* Faulty variant of lines 731-746: the y axis is not turned over.
ProjectionYUp(w, h) ==
    <<<<Rat(2, w), RatZero, RatZero, RatZero>>,
      <<RatZero, Rat(2, h), RatZero, RatZero>>,
      <<RatZero, RatZero, RatOne, RatZero>>,
      <<Rat(-1, 1), Rat(-1, 1), RatZero, RatOne>>>>

\* Lines 731-746: projection[i][j] is element [i + 1][j + 1].
OrthographicProjection(w, h) ==
    <<<<Rat(2, w), RatZero, RatZero, RatZero>>,
      <<RatZero, Rat(-2, h), RatZero, RatZero>>,
      <<RatZero, RatZero, RatOne, RatZero>>,
      <<Rat(-1, 1), RatOne, RatZero, RatOne>>>>

\* uniformFails: glGetError reports an error after glUniformMatrix4fv (the
\* uniform then keeps its value). The uniform is the one of the program in
\* use, which the caller has made current_program (line 752); with another
\* context current the upload does not come to the renderer's programs.
GLES2_SetOrthographicProjection(m, uniformFails) ==
    LET called == Calls(m, <<"SDL_GetWindowSize", "glUniformMatrix4fv">>)
    IN IF uniformFails THEN [m |-> called, ret |-> -1]
       ELSE IF m.gl.context # m.rdata.context THEN [m |-> called, ret |-> 0]
       ELSE [m |-> [called EXCEPT !.gl.u_projection =
                        Alloc(@, m.rdata.current_program,
                              OrthographicProjection(m.window.w, m.window.h))],
             ret |-> 0]

(***************************************************************************)
(* GLES2_SelectProgram, lines 652-717.                                     *)
(***************************************************************************)
\* Faulty variant of lines 710-716: current_program is left as it is.
SelectFaultKeepsProgram(m, vertex, fragment, error) ==
    LET m1 == IF vertex # NULL /\ m.shaders[vertex].references <= 0
              THEN GLES2_EvictShader(m, vertex) ELSE m
        m2 == IF fragment # NULL /\ m1.shaders[fragment].references <= 0
              THEN GLES2_EvictShader(m1, fragment) ELSE m1
    IN [m |-> m2, ret |-> -1, how |-> "fault", error |-> error]

\* Faulty variant of lines 710-716: no shader is evicted.
SelectFaultKeepsShaders(m, vertex, fragment, error) ==
    [m |-> [m EXCEPT !.rdata.current_program = NULL],
     ret |-> -1, how |-> "fault", error |-> error]

\* Lines 710-716, the fault label.
SelectFault(m, vertex, fragment, error) ==
    LET m1 == IF vertex # NULL /\ m.shaders[vertex].references <= 0
              THEN GLES2_EvictShader(m, vertex) ELSE m
        m2 == IF fragment # NULL /\ m1.shaders[fragment].references <= 0
              THEN GLES2_EvictShader(m1, fragment) ELSE m1
    IN [m |-> [m2 EXCEPT !.rdata.current_program = NULL],
        ret |-> -1, how |-> "fault", error |-> error]

\* The points at which one call of an operation can be made to fail.
FailPoints ==
    {"none", "vertex_alloc", "vertex_compile", "fragment_alloc", "fragment_compile",
     "program_alloc", "program_link", "use", "projection", "draw"}

\* Faulty variant of lines 663-671: the solid fragment shader for every
\* image source.
AlwaysSolid(source) == GLES2_SHADER_FRAGMENT_SOLID_SRC

FragmentType(source) ==
    IF source = GLES2_IMAGESOURCE_SOLID
    THEN GLES2_SHADER_FRAGMENT_SOLID_SRC ELSE GLES2_SHADER_FRAGMENT_TEXTURE_SRC

SelectHung(m) == [m |-> m, ret |-> -1, how |-> "hang", error |-> "hang"]

\* Faulty variant of lines 692-708: the projection is not uploaded.
SelectUseNoProjection(v, f, p, m, fail) ==
    IF fail = "use" THEN SelectFault(m, v.entry, f.entry, "ProgramBindError")
    ELSE [m |-> [m EXCEPT !.rdata.current_program = p.entry],
          ret |-> 0, how |-> p.how, error |-> "none"]

\* Lines 694-702: glUseProgram has succeeded. The program is in use in the
\* context that is current, which is the renderer's own unless its bind
\* failed.
UseProgram(m, entry) ==
    [m EXCEPT !.rdata.current_program = entry,
              !.gl.program = IF m.gl.context = m.rdata.context THEN entry ELSE @]

\* Lines 692-708: the program is used and becomes the current program, the
\* projection is uploaded.
SelectUse(v, f, p, m, fail) ==
    IF fail = "use" THEN SelectFault(m, v.entry, f.entry, "ProgramBindError")
    ELSE IF fail = "projection"
    THEN SelectFault(GLES2_SetOrthographicProjection(UseProgram(m, p.entry), TRUE).m,
                     v.entry, f.entry, "UniformUploadError")
    ELSE [m |-> GLES2_SetOrthographicProjection(UseProgram(m, p.entry), FALSE).m,
          ret |-> 0, how |-> p.how, error |-> "none"]

\* Lines 687-690: p is what GLES2_CacheProgram returned.
SelectCached(v, f, p, fail) ==
    IF p.m.hung THEN SelectHung(p.m)
    ELSE IF p.entry = NULL THEN SelectFault(p.m, v.entry, f.entry, p.how)
    ELSE SelectUse(v, f, p,
                   Call(Reach(p.m, {"use", "projection"}), "glUseProgram"), fail)

\* Faulty variant of lines 677-690: the current program is not looked at.
SelectFragmentAlways(v, f, blendMode, fail) ==
    IF f.m.hung THEN SelectHung(f.m)
    ELSE IF f.entry = NULL THEN SelectFault(f.m, v.entry, NULL, f.error)
    ELSE SelectCached(v, f,
                      GLES2_CacheProgram(f.m, v.entry, f.entry, blendMode,
                                         fail = "program_alloc", fail = "program_link"),
                      fail)

\* Lines 677-690: f is what GLES2_CacheShader returned for the fragment
\* shader.
SelectFragment(v, f, blendMode, fail) ==
    IF f.m.hung THEN SelectHung(f.m)
    ELSE IF f.entry = NULL THEN SelectFault(f.m, v.entry, NULL, f.error)
    ELSE IF /\ f.m.rdata.current_program # NULL
            /\ f.m.progs[f.m.rdata.current_program].vertex_shader = v.entry
            /\ f.m.progs[f.m.rdata.current_program].fragment_shader = f.entry
    THEN [m |-> f.m, ret |-> 0, how |-> "same", error |-> "none"]
    ELSE SelectCached(v, f,
                      GLES2_CacheProgram(f.m, v.entry, f.entry, blendMode,
                                         fail = "program_alloc", fail = "program_link"),
                      fail)

\* Lines 674-679: v is what GLES2_CacheShader returned for the vertex shader.
SelectVertex(v, ftype, blendMode, fail) ==
    IF v.m.hung THEN SelectHung(v.m)
    ELSE IF v.entry = NULL THEN SelectFault(v.m, NULL, NULL, v.error)
    ELSE SelectFragment(v,
                        GLES2_CacheShader(v.m, ftype, blendMode,
                                          fail = "fragment_alloc",
                                          fail = "fragment_compile"),
                        blendMode, fail)

GLES2_SelectProgram(m, source, blendMode, fail) ==
    SelectVertex(GLES2_CacheShader(m, GLES2_SHADER_VERTEX_DEFAULT, blendMode,
                                   fail = "vertex_alloc", fail = "vertex_compile"),
                 FragmentType(source), blendMode, fail)

(***************************************************************************)
(* GLES2_ActivateRenderer, lines 144-167.                                  *)
(***************************************************************************)
\* Faulty variant of lines 159-165: updateSize is left set.
ViewportKeepsFlag(m) ==
    IF m.rdata.updateSize
    THEN [Calls(m, <<"SDL_GetWindowSize", "glViewport">>)
             EXCEPT !.gl.viewport = <<0, 0, m.window.w, m.window.h>>]
    ELSE m

\* Lines 159-165.
ActivateViewport(m) ==
    IF m.rdata.updateSize
    THEN [Calls(m, <<"SDL_GetWindowSize", "glViewport">>)
             EXCEPT !.gl.viewport = <<0, 0, m.window.w, m.window.h>>,
                    !.rdata.updateSize = FALSE]
    ELSE m

\* Faulty variant of lines 150-158: the failure of SDL_GL_MakeCurrent is
\* returned after the context is recorded and the viewport set.
ActivateIgnoresFailure(m, makeCurrentFails) ==
    [m |-> ActivateViewport([m EXCEPT !.SDL_CurrentContext = m.rdata.context]),
     ret |-> IF makeCurrentFails THEN -1 ELSE 0]

\* Lines 150-158: m has current_program nulled and SDL_GL_MakeCurrent called.
\* A failed SDL_GL_MakeCurrent leaves the context current that was.
ActivateContext(m, makeCurrentFails) ==
    IF makeCurrentFails THEN [m |-> m, ret |-> -1]
    ELSE [m |-> ActivateViewport([m EXCEPT !.SDL_CurrentContext = m.rdata.context,
                                           !.gl.context = m.rdata.context]),
          ret |-> 0]

\* Faulty variant of lines 150-158: current_program is left as it is.
ActivateKeepsProgram(m, makeCurrentFails) ==
    IF m.SDL_CurrentContext # m.rdata.context
    THEN ActivateContext(Call(m, "SDL_GL_MakeCurrent"), makeCurrentFails)
    ELSE [m |-> ActivateViewport(m), ret |-> 0]

\* Faulty variant of lines 150-158: current_program is reset after
\* SDL_GL_MakeCurrent has succeeded.
ActivateResetsLate(m, makeCurrentFails) ==
    IF m.SDL_CurrentContext # m.rdata.context
    THEN IF makeCurrentFails
         THEN [m |-> Call(m, "SDL_GL_MakeCurrent"), ret |-> -1]
         ELSE ActivateContext(Call([m EXCEPT !.rdata.current_program = NULL],
                                   "SDL_GL_MakeCurrent"),
                              FALSE)
    ELSE [m |-> ActivateViewport(m), ret |-> 0]

\* makeCurrentFails: SDL_GL_MakeCurrent returns < 0.
GLES2_ActivateRenderer(m, makeCurrentFails) ==
    IF m.SDL_CurrentContext # m.rdata.context
    THEN ActivateContext(Call([m EXCEPT !.rdata.current_program = NULL],
                              "SDL_GL_MakeCurrent"),
                         makeCurrentFails)
    ELSE [m |-> ActivateViewport(m), ret |-> 0]

(***************************************************************************)
(* The draw emitters, lines 814-1054: bind (the result is not looked at),  *)
(* select, per-draw uniforms, blend state, attributes, draw, glGetError.   *)
(***************************************************************************)
NoSelect == [ret |-> 0, how |-> "none", error |-> "none"]

\* Lines 856-857, 910-911, and for each rectangle 970-971: the vertices
\* are set and drawn.
RECURSIVE DrawArrays(_, _)
DrawArrays(primitive, draws) ==
    IF draws = 0 THEN <<>>
    ELSE <<"glVertexAttribPointer", "glDrawArrays(" \o primitive \o ")">>
            \o DrawArrays(primitive, draws - 1)

\* Faulty variant of lines 830-865: an error after the draw call resets
\* current_program.
SolidDrawResets(s, fail, primitive, draws) ==
    IF s.ret < 0 THEN [m |-> s.m, sel |-> s, ret |-> -1]
    ELSE [m |-> [Reach(Calls(s.m, DrawArrays(primitive, draws)), {"draw"})
                    EXCEPT !.rdata.current_program =
                               IF fail = "draw" THEN NULL ELSE @],
          sel |-> s, ret |-> IF fail = "draw" THEN -1 ELSE 0]

\* Faulty variant of lines 830-865: the result of GLES2_SelectProgram is not
\* looked at.
SolidDrawIgnoresSelect(s, fail, primitive, draws) ==
    [m |-> Reach(Calls(s.m, <<"glUniform4f", "GLES2_SetBlendMode",
                              "glEnableVertexAttribArray(POSITION)">>
                            \o DrawArrays(primitive, draws)
                            \o <<"glDisableVertexAttribArray(POSITION)">>),
                 {"draw"}),
     sel |-> s, ret |-> IF s.ret < 0 \/ fail = "draw" THEN -1 ELSE 0]

\* Lines 830-865: s is what GLES2_SelectProgram returned; the primitive is
\* the one of the glDrawArrays call.
SolidDraw(s, fail, primitive, draws) ==
    IF s.ret < 0 THEN [m |-> s.m, sel |-> s, ret |-> -1]
    ELSE [m |-> Reach(Calls(s.m, <<"glUniform4f", "GLES2_SetBlendMode",
                                   "glEnableVertexAttribArray(POSITION)">>
                                 \o DrawArrays(primitive, draws)
                                 \o <<"glDisableVertexAttribArray(POSITION)">>),
                      {"draw"}),
          sel |-> s, ret |-> IF fail = "draw" THEN -1 ELSE 0]

SolidEmitter(m, blendMode, makeCurrentFails, fail, primitive, draws) ==
    SolidDraw(GLES2_SelectProgram(GLES2_ActivateRenderer(m, makeCurrentFails).m,
                                  GLES2_IMAGESOURCE_SOLID, blendMode, fail),
              fail, primitive, draws)

\* Lines 814-866.
GLES2_RenderDrawPoints(m, blendMode, makeCurrentFails, fail) ==
    SolidEmitter(m, blendMode, makeCurrentFails, fail, "GL_POINTS", 1)

\* Lines 868-920.
GLES2_RenderDrawLines(m, blendMode, makeCurrentFails, fail) ==
    SolidEmitter(m, blendMode, makeCurrentFails, fail, "GL_LINE_STRIP", 1)

\* Lines 922-980, for NumRects rectangles.
GLES2_RenderFillRects(m, blendMode, makeCurrentFails, fail) ==
    SolidEmitter(m, blendMode, makeCurrentFails, fail, "GL_TRIANGLE_STRIP", NumRects)

\* Faulty variant of lines 1003-1053: glGetError is looked at directly after
\* glDrawArrays, and an error returned before the attributes are disabled.
TextureDrawReturnsEarly(s, fail) ==
    IF s.ret < 0 THEN [m |-> s.m, sel |-> s, ret |-> -1]
    ELSE [m |-> Reach(Calls(s.m, <<"glActiveTexture", "glBindTexture", "glUniform1i",
                                   "GLES2_SetBlendMode", "glUniform4f",
                                   "glEnableVertexAttribArray(TEXCOORD)",
                                   "glEnableVertexAttribArray(POSITION)",
                                   "glVertexAttribPointer", "glVertexAttribPointer",
                                   "glDrawArrays(GL_TRIANGLE_STRIP)">>
                                 \o IF fail = "draw" THEN <<>>
                                    ELSE <<"glDisableVertexAttribArray(POSITION)",
                                           "glDisableVertexAttribArray(TEXCOORD)">>),
                      {"draw"}),
          sel |-> s, ret |-> IF fail = "draw" THEN -1 ELSE 0]

\* Lines 1003-1053: s is what GLES2_SelectProgram returned.
TextureDraw(s, fail) ==
    IF s.ret < 0 THEN [m |-> s.m, sel |-> s, ret |-> -1]
    ELSE [m |-> Reach(Calls(s.m, <<"glActiveTexture", "glBindTexture", "glUniform1i",
                                   "GLES2_SetBlendMode", "glUniform4f",
                                   "glEnableVertexAttribArray(TEXCOORD)",
                                   "glEnableVertexAttribArray(POSITION)",
                                   "glVertexAttribPointer", "glVertexAttribPointer",
                                   "glDrawArrays(GL_TRIANGLE_STRIP)",
                                   "glDisableVertexAttribArray(POSITION)",
                                   "glDisableVertexAttribArray(TEXCOORD)">>),
                      {"draw"}),
          sel |-> s, ret |-> IF fail = "draw" THEN -1 ELSE 0]

\* Lines 982-1054.
GLES2_RenderCopy(m, blendMode, makeCurrentFails, fail) ==
    TextureDraw(GLES2_SelectProgram(GLES2_ActivateRenderer(m, makeCurrentFails).m,
                                    GLES2_IMAGESOURCE_TEXTURE, blendMode, fail),
                fail)

\* GLES2_RenderClear, lines 774-788.
GLES2_RenderClear(m, makeCurrentFails) ==
    [m |-> Calls(GLES2_ActivateRenderer(m, makeCurrentFails).m,
                 <<"glClearColor", "glClear">>),
     sel |-> NoSelect, ret |-> 0]

\* GLES2_RenderPresent, lines 1056-1063.
GLES2_RenderPresent(m, makeCurrentFails) ==
    [m |-> Call(GLES2_ActivateRenderer(m, makeCurrentFails).m, "SDL_GL_SwapWindow"),
     sel |-> NoSelect, ret |-> 0]

\* Lines 194-200, one entry of the list: both shaders are deleted and freed,
\* then the program and the entry. A shader freed before (with another
\* entry) is read and freed again, which is undefined.
DestroyEntry(d, entry) ==
    LET vertex == d.m.progs[entry].vertex_shader
        fragment == d.m.progs[entry].fragment_shader
    IN [m |-> [DeleteProgram(Calls(d.m, <<"glDeleteShader", "glDeleteShader">>), entry)
                  EXCEPT !.shaders = Free(Free(@, vertex), fragment),
                         !.progs = Free(@, entry),
                         !.evicted = Append(@, [entry |-> entry, freed |-> entry,
                                                vertex_shader |-> vertex,
                                                fragment_shader |-> fragment])],
        undefined |-> \/ d.undefined
                      \/ {vertex, fragment} \ DOMAIN d.m.shaders # {}]

\* Lines 191-202, the loop from entry on. An entry met again has been freed:
\* reading it is undefined, and the walk is followed no further.
RECURSIVE DestroyEntries(_, _)
DestroyEntries(d, entry) ==
    IF entry = NULL THEN d
    ELSE IF entry \notin DOMAIN d.m.progs THEN [d EXCEPT !.undefined = TRUE]
    ELSE DestroyEntries(DestroyEntry(d, entry), d.m.progs[entry].next)

\* GLES2_DestroyRenderer, lines 181-207.
GLES2_DestroyRenderer(m, makeCurrentFails) ==
    LET d == DestroyEntries([m |-> GLES2_ActivateRenderer(m, makeCurrentFails).m,
                             undefined |-> FALSE],
                            m.rdata.program_cache.head)
    IN [m |-> Call(d.m, "SDL_GL_DeleteContext"), undefined |-> d.undefined]

\* Faulty variant of lines 174-178: the viewport is set when the event comes.
WindowEventSetsViewport(m, event) ==
    IF event = "SDL_WINDOWEVENT_RESIZED"
    THEN [Calls(m, <<"SDL_GetWindowSize", "glViewport">>)
             EXCEPT !.SDL_CurrentContext = NULL,
                    !.gl.viewport = <<0, 0, m.window.w, m.window.h>>]
    ELSE m

\* GLES2_WindowEvent, lines 169-179.
GLES2_WindowEvent(m, event) ==
    IF event = "SDL_WINDOWEVENT_RESIZED"
    THEN [m EXCEPT !.SDL_CurrentContext = NULL, !.rdata.updateSize = TRUE]
    ELSE m

(***************************************************************************)
(* Operations as actions.                                                  *)
(***************************************************************************)
Now == Mem(rdata, shaders, progs, SDL_CurrentContext, window, gl)

\* What an operation leaves in `last`: the entry point, the blend mode or the
\* window event it was called with (<<>> when it takes none), what it and GLES2_SelectProgram
\* returned, the GL calls made, the program entries and shaders destroyed,
\* and, for the operation that follows a change of the window's size, the
\* size at the successful draw that the change followed.
Outcome(op, request, r, drawnAt) ==
    [op |-> op, request |-> request, ret |-> r.ret, sel |-> r.sel.ret,
     how |-> r.sel.how,
     error |-> r.sel.error, calls |-> r.m.calls, evicted |-> r.m.evicted,
     freedShaders |-> r.m.freedShaders, drawnAt |-> drawnAt]

\* The draw emitters.
EmitterOps ==
    {"GLES2_RenderDrawPoints", "GLES2_RenderDrawLines", "GLES2_RenderFillRects",
     "GLES2_RenderCopy"}

\* The operation does not follow a resize that followed a draw.
NoSize == [w |-> 0, h |-> 0]

\* History: what a window event recorded is kept for the operation that
\* follows it.
DrawnAt ==
    IF last.op = "GLES2_WindowEvent" THEN last.drawnAt ELSE NoSize

\* History, recorded when the window changes its size: the size it had
\* at the draw just made, when that emitter returned success.
DrawnBefore ==
    IF last.op \in EmitterOps /\ last.ret = 0 THEN window ELSE DrawnAt

\* Lines 443-450 as a set: the entries the scan of the program list visits.
RECURSIVE Reachable(_, _, _)
Reachable(pr, entry, seen) ==
    IF entry = NULL \/ entry \in seen THEN seen
    ELSE Reachable(pr, pr[entry].next, seen \cup {entry})

CachedPrograms(pr, cache) == Reachable(pr, cache.head, {})

\* History of acquires: the acquired entry moves to the front; entries no
\* longer in the cache are dropped.
RECURSIVE Only(_, _)
Only(seq, keep) ==
    IF seq = <<>> THEN <<>>
    ELSE IF Head(seq) \in keep THEN <<Head(seq)>> \o Only(Tail(seq), keep)
    ELSE Only(Tail(seq), keep)

NextLru(m) ==
    LET cached == CachedPrograms(m.progs, m.rdata.program_cache)
        moved == IF m.acquired = NULL THEN lru
                 ELSE <<m.acquired>> \o Only(lru, cached \ {m.acquired})
    IN Only(moved, cached)

Record(op, request, r, drawnAt) ==
    /\ rdata' = r.m.rdata
    /\ shaders' = r.m.shaders
    /\ progs' = r.m.progs
    /\ SDL_CurrentContext' = r.m.SDL_CurrentContext
    /\ window' = r.m.window
    /\ gl' = r.m.gl
    /\ pc' = IF r.m.hung THEN "hung" ELSE "ready"
    /\ last' = Outcome(op, request, r, drawnAt)
    /\ lru' = NextLru(r.m)

Commit(op, request, r) == Record(op, request, r, DrawnAt)

\* The inputs of one run: the blend modes drawn with, the points of failure
\* injected, and whether program-cache hits are counted against
\* MaxPromotions.
Workload(solid, texture, fails, bounded) ==
    [solid |-> solid, texture |-> texture, fails |-> fails, bounded |-> bounded]

\* The order in which the application of SpecLRU takes up new programs:
\* solid and textured draws alternate over the blend modes the textures
\* carry, the remaining solid blend modes follow.
PairIndex(op, blendMode) ==
    IF op = "GLES2_RenderCopy" THEN 2 * blendMode
    ELSE IF blendMode <= NumTexBlend THEN 2 * blendMode - 1
    ELSE NumTexBlend + blendMode

\* The renderer's function pointers, lines 1156-1168.
Emitter(op, m, blendMode, makeCurrentFails, fail) ==
    CASE op = "GLES2_RenderDrawPoints" ->
            GLES2_RenderDrawPoints(m, blendMode, makeCurrentFails, fail)
      [] op = "GLES2_RenderDrawLines" ->
            GLES2_RenderDrawLines(m, blendMode, makeCurrentFails, fail)
      [] op = "GLES2_RenderFillRects" ->
            GLES2_RenderFillRects(m, blendMode, makeCurrentFails, fail)
      [] op = "GLES2_RenderCopy" ->
            GLES2_RenderCopy(m, blendMode, makeCurrentFails, fail)

Binder(op, m, makeCurrentFails) ==
    CASE op = "GLES2_RenderClear" -> GLES2_RenderClear(m, makeCurrentFails)
      [] op = "GLES2_RenderPresent" -> GLES2_RenderPresent(m, makeCurrentFails)

\* The operation's result r becomes the next state; hits, evictions and
\* failures are counted when the workload bounds them.
Step(op, blendMode, w, fail, r) ==
    /\ (w.bounded /\ fail # "none") => failures < MaxFailures
    /\ (w.bounded /\ r.sel.how = "hit") => promotions < MaxPromotions
    /\ (w.bounded /\ r.m.evicted # <<>>) => evictions < MaxEvictions
    /\ Commit(op, <<blendMode>>, r)
    /\ promotions' = IF w.bounded /\ r.sel.how = "hit"
                     THEN promotions + 1 ELSE promotions
    /\ evictions' = IF w.bounded /\ r.m.evicted # <<>>
                    THEN evictions + 1 ELSE evictions
    /\ failures' = IF w.bounded /\ fail # "none"
                   THEN failures + 1 ELSE failures
    /\ blendsSeen' = IF /\ w.bounded
                        /\ r.sel.how = "miss"
                        /\ PairIndex(op, blendMode) = blendsSeen + 1
                     THEN blendsSeen + 1 ELSE blendsSeen

\* One call of an emitter: the failure injected is one the call reaches.
Emit(op, blendMode, w) ==
    \E makeCurrentFails \in (w.fails \cap {"make_current"}) \cup {"none"} :
        /\ makeCurrentFails # "none" => SDL_CurrentContext # rdata.context
        /\ \E fail \in {"none"} \cup
                  (Emitter(op, Now, blendMode, makeCurrentFails # "none", "none").m.points
                      \cap w.fails) :
              \E r \in {Emitter(op, Now, blendMode, makeCurrentFails # "none", fail)} :
                  Step(op, blendMode, w, fail, r)

RenderDrawPoints(w) ==
    /\ pc = "ready"
    /\ \E blendMode \in w.solid :
          Emit("GLES2_RenderDrawPoints", blendMode, w)

RenderDrawLines(w) ==
    /\ pc = "ready"
    /\ \E blendMode \in w.solid :
          Emit("GLES2_RenderDrawLines", blendMode, w)

RenderFillRects(w) ==
    /\ pc = "ready"
    /\ \E blendMode \in w.solid :
          Emit("GLES2_RenderFillRects", blendMode, w)

RenderCopy(w) ==
    /\ pc = "ready"
    /\ \E blendMode \in w.texture :
          Emit("GLES2_RenderCopy", blendMode, w)

Bind(op, w) ==
    /\ pc = "ready"
    /\ \E makeCurrentFails \in (w.fails \cap {"make_current"}) \cup {"none"} :
        /\ makeCurrentFails # "none" => SDL_CurrentContext # rdata.context
        /\ \E r \in {Binder(op, Now, makeCurrentFails # "none")} : Commit(op, <<>>, r)
    /\ UNCHANGED <<promotions, evictions, failures, blendsSeen>>

RenderClear(w) == Bind("GLES2_RenderClear", w)

RenderPresent(w) == Bind("GLES2_RenderPresent", w)

WindowEvent ==
    /\ pc = "ready"
    /\ \E event \in {"SDL_WINDOWEVENT_RESIZED", "SDL_WINDOWEVENT_MOVED"} :
          Commit("GLES2_WindowEvent", <<event>>,
                 [m |-> GLES2_WindowEvent(Now, event), sel |-> NoSelect, ret |-> 0])
    /\ UNCHANGED <<promotions, evictions, failures, blendsSeen>>

\* The renderer is destroyed; no operation follows. Where the code has read
\* or freed memory already freed, the process may go on or crash.
DestroyRenderer(w) ==
    /\ pc = "ready"
    /\ \E makeCurrentFails \in (w.fails \cap {"make_current"}) \cup {"none"} :
        /\ makeCurrentFails # "none" => SDL_CurrentContext # rdata.context
        /\ \E d \in {GLES2_DestroyRenderer(Now, makeCurrentFails # "none")} :
              /\ rdata' = d.m.rdata
              /\ shaders' = d.m.shaders
              /\ progs' = d.m.progs
              /\ SDL_CurrentContext' = d.m.SDL_CurrentContext
              /\ window' = d.m.window
              /\ gl' = d.m.gl
              /\ pc' \in {"destroyed"} \cup (IF d.undefined THEN {"crashed"} ELSE {})
              /\ last' = Outcome("GLES2_DestroyRenderer", <<>>,
                                 [m |-> d.m, sel |-> NoSelect, ret |-> 0], DrawnAt)
              /\ lru' = <<>>
    /\ UNCHANGED <<promotions, evictions, failures, blendsSeen>>

\* The memory as another renderer of the process has it: the context
\* recorded and the GL state are the same, the driver data is its own, of
\* which only the context matters to this renderer.
Other ==
    [Now EXCEPT !.rdata.context = OtherContext, !.rdata.updateSize = FALSE]

\* What the other renderer's GLES2_SelectProgram does to this renderer's
\* context when that is the one current: its program names are those of
\* its own context, so its glUseProgram binds one of this renderer's
\* programs, or a program it has just created here, or fails.
OtherSelect(o) ==
    IF o.gl.context # Context THEN {o.gl}
    ELSE {[o.gl EXCEPT !.program = program] :
             program \in {o.gl.program, UncachedProgram} \cup DOMAIN o.progs}

\* An emitter of the other renderer, lines 814-1054: its bind has reset its
\* current_program, so its select calls glUseProgram, also after the bind
\* failed (the result is not looked at). With its context recorded as
\* current it touches nothing of this renderer's.
OtherEmit(w) ==
    /\ pc = "ready"
    /\ \E makeCurrentFails \in (w.fails \cap {"make_current"}) \cup {"none"} :
        /\ makeCurrentFails # "none" => SDL_CurrentContext # OtherContext
        /\ \E o \in {GLES2_ActivateRenderer(Other, makeCurrentFails # "none")} :
              /\ SDL_CurrentContext' = o.m.SDL_CurrentContext
              /\ gl' \in OtherSelect(o.m)
              /\ last' = Outcome("OtherRenderer", <<>>,
                                 [m |-> o.m, sel |-> NoSelect, ret |-> o.ret], DrawnAt)
    /\ UNCHANGED <<rdata, shaders, progs, window, pc, lru,
                   promotions, evictions, failures, blendsSeen>>

\* GLES2_WindowEvent of the other renderer, lines 169-179.
OtherWindowEvent ==
    /\ pc = "ready"
    /\ \E o \in {GLES2_WindowEvent(Other, "SDL_WINDOWEVENT_RESIZED")} :
          /\ SDL_CurrentContext' = o.SDL_CurrentContext
          /\ last' = Outcome("OtherRenderer", <<"SDL_WINDOWEVENT_RESIZED">>,
                             [m |-> o, sel |-> NoSelect, ret |-> 0], DrawnAt)
    /\ UNCHANGED <<rdata, shaders, progs, window, gl, pc, lru,
                   promotions, evictions, failures, blendsSeen>>

\* The window takes another size and the renderer is told.
WindowResized ==
    /\ pc = "ready"
    /\ \E size \in WindowSizes \ {window} :
          Record("GLES2_WindowEvent", <<"SDL_WINDOWEVENT_RESIZED">>,
                 [m |-> GLES2_WindowEvent([Now EXCEPT !.window = size],
                                          "SDL_WINDOWEVENT_RESIZED"),
                  sel |-> NoSelect, ret |-> 0],
                 DrawnBefore)
    /\ UNCHANGED <<promotions, evictions, failures, blendsSeen>>

(***************************************************************************)
(* GLES2_CreateRenderer, lines 1071-1171: the driver data is zeroed, the   *)
(* context made current, the platform's shader formats queried (binary     *)
(* formats first, the compiler's (GLenum)-1 last, when there is one).      *)
(***************************************************************************)
Platforms == {<<GL_NVIDIA_PLATFORM_BINARY_NV, GLES2_SOURCE_SHADER>>,
              <<PlatformOnlyFormat>>}

CreateRenderer(sizes, contexts) ==
    /\ rdata \in {[context |-> Context,
                   shader_formats |-> formats,
                   shader_cache |-> [count |-> 0, head |-> NULL],
                   program_cache |-> [count |-> 0, head |-> NULL, tail |-> NULL],
                   current_program |-> NULL,
                   updateSize |-> FALSE] : formats \in Platforms}
    /\ shaders = <<>>
    /\ progs = <<>>
    /\ SDL_CurrentContext = NULL
    /\ window \in sizes
    /\ gl \in {[viewport |-> <<0, 0, window.w, window.h>>,
                u_projection |-> NoProjection,
                context |-> context,
                program |-> NULL] : context \in contexts}
    /\ pc = "ready"
    /\ last = Outcome("GLES2_CreateRenderer", <<>>,
                      [m |-> Now, sel |-> NoSelect, ret |-> 0], NoSize)
    /\ lru = <<>>
    /\ blendsSeen = 0
    /\ promotions = 0
    /\ evictions = 0
    /\ failures = 0

Init == CreateRenderer({DefaultSize}, {Context})

(***************************************************************************)
(* Spec: every operation, every point of failure, an application that      *)
(* draws with a few blend modes (the cache does not fill up).              *)
(***************************************************************************)
AllFailPoints == FailPoints \cup {"make_current"}

App ==
    Workload({b \in BlendModes : b <= NumDrawBlend \/ b = BlendBinaryOnly},
             {b \in BlendModes : b <= NumDrawBlend \/ b = BlendBinaryOnly},
             AllFailPoints, FALSE)

Next ==
    \/ RenderDrawPoints(App)
    \/ RenderDrawLines(App)
    \/ RenderFillRects(App)
    \/ RenderCopy(App)
    \/ RenderClear(App)
    \/ RenderPresent(App)
    \/ WindowEvent

Spec == Init /\ [][Next]_vars

(***************************************************************************)
(* SpecLRU: an application that draws with more blend modes than the       *)
(* program cache holds, and takes up new programs in one order; hits,      *)
(* evictions and failed calls are counted against their bounds.            *)
(***************************************************************************)
AppLRU ==
    Workload({b \in 1 .. NumBlend :
                 PairIndex("GLES2_RenderDrawPoints", b) <= blendsSeen + 1},
             {b \in 1 .. NumTexBlend :
                 PairIndex("GLES2_RenderCopy", b) <= blendsSeen + 1},
             {"program_link"}, TRUE)

NextLRU ==
    \/ RenderDrawPoints(AppLRU)
    \/ RenderCopy(AppLRU)
    \/ WindowEvent

SpecLRU == Init /\ [][NextLRU]_vars

(***************************************************************************)
(* SpecEvict: an application that takes up one new program after the      *)
(* other and, the cache being full, draws once more with the first; the    *)
(* glUseProgram of a select can fail.                                      *)
(***************************************************************************)
AppEvict ==
    Workload({b \in 1 .. NumBlend :
                 \/ PairIndex("GLES2_RenderDrawPoints", b) = blendsSeen + 1
                 \/ b = 1 /\ blendsSeen = GLES2_MAX_CACHED_PROGRAMS},
             {b \in 1 .. NumTexBlend :
                 PairIndex("GLES2_RenderCopy", b) = blendsSeen + 1},
             {"use"}, TRUE)

NextEvict ==
    \/ RenderDrawPoints(AppEvict)
    \/ RenderFillRects(AppEvict)
    \/ RenderCopy(AppEvict)
    \/ RenderPresent(AppEvict)
    \/ WindowEvent

SpecEvict == Init /\ [][NextEvict]_vars

(***************************************************************************)
(* SpecTwo: two renderers of one thread, each with its own context, both   *)
(* created before the first operation (the context current is that of the  *)
(* one created last). This renderer draws solid and textured with one      *)
(* blend mode, clears and is resized; the other one draws and is resized;  *)
(* SDL_GL_MakeCurrent can fail for either.                                 *)
(***************************************************************************)
InitTwo == CreateRenderer({DefaultSize}, {Context, OtherContext})

AppTwo == Workload({1}, {1}, {"make_current"}, FALSE)

NextTwo ==
    \/ RenderFillRects(AppTwo)
    \/ RenderCopy(AppTwo)
    \/ RenderClear(AppTwo)
    \/ WindowEvent
    \/ OtherEmit(AppTwo)
    \/ OtherWindowEvent

SpecTwo == InitTwo /\ [][NextTwo]_vars

(***************************************************************************)
(* SpecDestroy: the application of Spec, which in the end destroys the     *)
(* renderer.                                                               *)
(***************************************************************************)
NextDestroy ==
    \/ RenderDrawPoints(App)
    \/ RenderCopy(App)
    \/ WindowEvent
    \/ DestroyRenderer(App)

SpecDestroy == Init /\ [][NextDestroy]_vars

(***************************************************************************)
(* SpecWindow: a window that is created with, and resized to, one of a few *)
(* sizes; an application that clears, draws with one blend mode and        *)
(* presents; SDL_GL_MakeCurrent and the projection upload can fail.        *)
(***************************************************************************)
InitWindow == CreateRenderer(WindowSizes, {Context})

AppWindow == Workload({1}, {1}, {"make_current", "projection", "draw"}, FALSE)

NextWindow ==
    \/ RenderFillRects(AppWindow)
    \/ RenderCopy(AppWindow)
    \/ RenderClear(AppWindow)
    \/ RenderPresent(AppWindow)
    \/ WindowEvent
    \/ WindowResized

SpecWindow == InitWindow /\ [][NextWindow]_vars

(***************************************************************************)
(* Properties of the program cache.                                        *)
(***************************************************************************)
ProgramList == CachedPrograms(progs, rdata.program_cache)

\* C1: once an acquire has returned, the program cache holds at most
\* GLES2_MAX_CACHED_PROGRAMS entries: both its count field and the number of
\* entries reachable from the list head are within the capacity.
C1_CacheWithinCapacity ==
    pc = "ready" =>
        /\ rdata.program_cache.count <= GLES2_MAX_CACHED_PROGRAMS
        /\ Cardinality(ProgramList) <= GLES2_MAX_CACHED_PROGRAMS

\* An acquire that evicted has returned and the cache is full.
C1_Witness ==
    /\ pc = "ready"
    /\ last.evicted # <<>>
    /\ rdata.program_cache.count = GLES2_MAX_CACHED_PROGRAMS

\* The cached program entry whose latest acquire (insertion or hit) is the
\* oldest.
LeastRecentlyRequested == lru[Len(lru)]

\* C2: when an insertion raises the cache above its capacity, the entry
\* evicted (its shaders released, its memory freed) is the
\* least-recently-requested one, whatever hits came before.
C2_EvictsLeastRecentlyRequested ==
    [][\A i \in 1 .. Len(last'.evicted) :
          /\ last'.evicted[i].entry = LeastRecentlyRequested
          /\ last'.evicted[i].freed = LeastRecentlyRequested]_vars

\* The number of live program entries (allocated, not freed) of the heap pr
\* that reference a shader entry, as vertex shader and as fragment shader.
References(pr, shaderEntry) ==
    Cardinality({p \in DOMAIN pr : pr[p].vertex_shader = shaderEntry})
      + Cardinality({p \in DOMAIN pr : pr[p].fragment_shader = shaderEntry})

RECURSIVE ReachableShaders(_, _, _)
ReachableShaders(sh, entry, seen) ==
    IF entry = NULL \/ entry \in seen THEN seen
    ELSE ReachableShaders(sh, sh[entry].next, seen \cup {entry})

\* The references a shader has after a step that evicted a program
\* referencing it: those it had, those taken by the programs the step
\* created, less the one released.
AfterRelease(shaderEntry) ==
    shaders[shaderEntry].references
      + (References(progs', shaderEntry)
           - References([p \in DOMAIN progs \cap DOMAIN progs' |-> progs'[p]], shaderEntry))
      - 1

\* What C4 says of one shader of an evicted program.
ReleasedOnce(shaderEntry) ==
    /\ shaderEntry \in DOMAIN shaders' =>
          shaders'[shaderEntry].references = AfterRelease(shaderEntry)
    /\ AfterRelease(shaderEntry) = 0 <=> References(progs', shaderEntry) = 0
    /\ AfterRelease(shaderEntry) = 0 <=>
          /\ shaderEntry \notin DOMAIN shaders'
          /\ shaderEntry \in last'.freedShaders
          /\ shaderEntry \notin ReachableShaders(shaders', rdata'.shader_cache.head, {})

RECURSIVE ProgramSeq(_, _, _)
ProgramSeq(pr, entry, seen) ==
    IF entry = NULL \/ entry \in seen THEN <<>>
    ELSE <<entry>> \o ProgramSeq(pr, pr[entry].next, seen \cup {entry})

\* The (vertex, fragment) pairs cached in the list of heap pr from head on.
CachedPairs(pr, head) ==
    {<<pr[e].vertex_shader, pr[e].fragment_shader>> : e \in Reachable(pr, head, {})}

Made(calls, name) == \E i \in 1 .. Len(calls) : calls[i] = name

\* C5: an acquire that finds the pair cached creates no GL program or shader,
\* leaves the set of cached pairs and every shader's reference count as they
\* were, and leaves the entry at the head of the list with the other entries
\* in the order they had.
C5_HitPromotesOnly ==
    [][last'.how = "hit" =>
          /\ ~Made(last'.calls, "glCreateProgram")
          /\ ~Made(last'.calls, "glCreateShader")
          /\ CachedPairs(progs', rdata'.program_cache.head)
                = CachedPairs(progs, rdata.program_cache.head)
          /\ DOMAIN shaders' = DOMAIN shaders
          /\ \A s \in DOMAIN shaders : shaders'[s].references = shaders[s].references
          /\ ProgramSeq(progs', rdata'.program_cache.head, {})
                = <<rdata'.program_cache.head>>
                    \o Only(ProgramSeq(progs, rdata.program_cache.head, {}),
                            DOMAIN progs \ {rdata'.program_cache.head})]_vars

\* Pn: the place of a program entry in the order in which the application
\* of SpecLRU takes up its programs.
ProgramIndex(pr, sh, entry) ==
    PairIndex(IF sh[pr[entry].fragment_shader].type = GLES2_SHADER_FRAGMENT_TEXTURE_SRC
              THEN "GLES2_RenderCopy" ELSE "GLES2_RenderDrawPoints",
              pr[entry].blend_mode)

Indices(pr, sh, seq) == [i \in 1 .. Len(seq) |-> ProgramIndex(pr, sh, seq[i])]

\* <<from, from - 1, ..., to>>
Descending(from, to) == [i \in 1 .. (from - to + 1) |-> from + 1 - i]

NoHitsNoFailures(evicted) ==
    pc = "ready" /\ failures = 0 /\ promotions = 0 /\ evictions = evicted

\* P1..P8 were acquired in that order into the empty cache.
C6_Filled ==
    /\ NoHitsNoFailures(0)
    /\ Indices(progs, shaders, ProgramSeq(progs, rdata.program_cache.head, {}))
          = Descending(GLES2_MAX_CACHED_PROGRAMS, 1)

\* ... then P9 was acquired.
C6_Overflowed ==
    /\ NoHitsNoFailures(1)
    /\ Indices(progs, shaders, lru) = Descending(GLES2_MAX_CACHED_PROGRAMS + 1, 2)

\* ... then P2 was acquired again.
C6_Reacquired ==
    /\ pc = "ready" /\ failures = 0 /\ promotions = 1 /\ evictions = 1
    /\ Indices(progs, shaders, lru)
          = <<2>> \o Descending(GLES2_MAX_CACHED_PROGRAMS + 1, 3)

EvictedIndices == [i \in 1 .. Len(last'.evicted) |->
                      ProgramIndex(progs, shaders, last'.evicted[i].entry)]

CachedIndices ==
    Indices(progs', shaders', ProgramSeq(progs', rdata'.program_cache.head, {}))

C6_AcquireP9 ==
    (C6_Filled /\ last'.how = "miss") =>
        /\ EvictedIndices = <<1>>
        /\ CachedIndices = Descending(GLES2_MAX_CACHED_PROGRAMS + 1, 2)

C6_ReacquireP2 ==
    (C6_Overflowed /\ last'.how = "hit" /\ ProgramIndex(progs', shaders', lru'[1]) = 2) =>
        /\ EvictedIndices = <<>>
        /\ CachedIndices = <<2>> \o Descending(GLES2_MAX_CACHED_PROGRAMS + 1, 3)

C6_AcquireP10 ==
    (C6_Reacquired /\ last'.how = "miss") =>
        /\ EvictedIndices = <<3>>
        /\ CachedIndices = <<CachedIndices[1], 2>>
                              \o Descending(GLES2_MAX_CACHED_PROGRAMS + 1, 4)

\* C6: with P1..P8 acquired in that order into the empty cache, acquiring P9
\* evicts P1 and nothing else; acquiring P2 again evicts nothing and leaves
\* P2..P9 cached with P2 at the head; the program acquired next (a P10)
\* evicts P3, not P2, and is cached in front of P2, P9, ..., P4.
C6_Scenario == [][C6_AcquireP9 /\ C6_ReacquireP2 /\ C6_AcquireP10]_vars

(***************************************************************************)
(* Properties of the program selection and of the draw emitters.           *)
(***************************************************************************)
\* The image source an emitter selects its program for.
Source(op) ==
    IF op = "GLES2_RenderCopy" THEN GLES2_IMAGESOURCE_TEXTURE ELSE GLES2_IMAGESOURCE_SOLID

\* The step is the second of two consecutive GLES2_SelectProgram calls with
\* the same image source and blend mode, the first of which returned 0, and
\* the renderer's context is still the current one.
SecondOfTwoSelects ==
    /\ last.op \in EmitterOps /\ last.sel = 0
    /\ last'.op \in EmitterOps
    /\ Source(last'.op) = Source(last.op)
    /\ last'.request = last.request
    /\ SDL_CurrentContext = rdata.context

\* C7: the second of two such calls returns success with no glUseProgram
\* call, no program or shader created, no projection uploaded, and the
\* program cache (its order included) and the shader reference counts as
\* they were.
C7_SecondSelectIsNoOp ==
    [][SecondOfTwoSelects =>
          /\ last'.sel = 0
          /\ ~Made(last'.calls, "glUseProgram")
          /\ ~Made(last'.calls, "glCreateProgram")
          /\ ~Made(last'.calls, "glCreateShader")
          /\ ~Made(last'.calls, "glUniformMatrix4fv")
          /\ progs' = progs
          /\ rdata'.program_cache = rdata.program_cache
          /\ shaders' = shaders]_vars

\* A select has been answered from the active-program tracker, with another
\* program in the cache.
C7_Witness ==
    /\ pc = "ready"
    /\ last.op \in EmitterOps /\ last.sel = 0 /\ last.how = "same"
    /\ rdata.program_cache.count > 1

\* GLES2_SelectProgram has returned failure.
SelectFailed == pc = "ready" /\ last.op \in EmitterOps /\ last.sel < 0

\* C8: whenever GLES2_SelectProgram returns failure, whatever the reason, the
\* active-program tracker is none.
C8_FailureResetsTracker == SelectFailed => rdata.current_program = NULL

\* The use of a cached program has failed.
C8_Witness ==
    /\ SelectFailed
    /\ last.error = "ProgramBindError"
    /\ rdata.program_cache.count > 1

\* An emitter has failed on the GL error that followed its draw call.
DrawError == pc = "ready" /\ last.op \in EmitterOps /\ last.sel = 0 /\ last.ret < 0

ShaderList(sh, cache) == ReachableShaders(sh, cache.head, {})

\* The shaders of the programs the step evicted.
EvictedShaders ==
    {last'.evicted[i].vertex_shader : i \in 1 .. Len(last'.evicted)}
      \cup {last'.evicted[i].fragment_shader : i \in 1 .. Len(last'.evicted)}

\* C10: when GLES2_SelectProgram fails, the shaders its cleanup destroyed
\* are shaders created during the call (none that had references), none
\* with references is destroyed by it, and the shader cache is left with no
\* zero-reference entry: every entry in memory has references and is in
\* the list, and the list holds nothing else.
C10_FailureCleansShaders ==
    [][SelectFailed' =>
          /\ \A s \in last'.freedShaders \ EvictedShaders : s \notin DOMAIN shaders
          /\ \A s \in DOMAIN shaders \ EvictedShaders :
                shaders[s].references > 0 => s \in DOMAIN shaders'
          /\ \A s \in DOMAIN shaders' : shaders'[s].references > 0
          /\ ShaderList(shaders', rdata'.shader_cache) = DOMAIN shaders'
          /\ rdata'.shader_cache.count = Cardinality(DOMAIN shaders')]_vars

\* A failed select has destroyed a shader it created and left the shaders
\* of the cached programs.
C10_Witness ==
    /\ SelectFailed
    /\ last.freedShaders # {}
    /\ last.freedShaders \cap DOMAIN shaders = {}
    /\ DOMAIN shaders # {}

(***************************************************************************)
(* Properties of the shader lookup.                                        *)
(***************************************************************************)
\* The platform's format list holds the format of no candidate of the shader.
NoVariant(type, blendMode) ==
    \A i \in 1 .. Len(GLES2_GetShader(type, blendMode).instances) :
        \A j \in 1 .. Len(rdata.shader_formats) :
            InstanceFormat(GLES2_GetShader(type, blendMode).instances[i])
                # rdata.shader_formats[j]

\* The call fails as the claim has it: GLES2_SelectProgram returns failure
\* with the unsupported-platform error, and both cache counts are as before.
FailsUnsupported ==
    /\ last'.sel < 0
    /\ last'.error = "UnsupportedPlatform"
    /\ rdata'.shader_cache.count = rdata.shader_cache.count
    /\ rdata'.program_cache.count = rdata.program_cache.count

\* C11: GLES2_SelectProgram on a platform whose format list matches no
\* candidate variant fails with the unsupported-platform error and leaves
\* the shader cache count and the program cache count as they were before
\* the call; so does every call that ends with that error (a fragment
\* shader without a variant for the platform, the vertex shader found).
C11_UnsupportedPlatformFails ==
    [][/\ (last'.op \in EmitterOps
           /\ NoVariant(GLES2_SHADER_VERTEX_DEFAULT, last'.request[1]))
          => FailsUnsupported
       /\ (last'.op \in EmitterOps /\ last'.error = "UnsupportedPlatform")
          => FailsUnsupported]_vars

\* A draw has failed on a platform that has no variant of the vertex shader.
C11_Witness ==
    /\ pc = "ready"
    /\ last.op \in EmitterOps
    /\ NoVariant(GLES2_SHADER_VERTEX_DEFAULT, last.request[1])
    /\ last.sel < 0
    /\ last.error = "UnsupportedPlatform"

(***************************************************************************)
(* Properties of the binding (GLES2_ActivateRenderer).                     *)
(***************************************************************************)
BinderOps == {"GLES2_RenderClear", "GLES2_RenderPresent"}

\* The number of calls of a GL function in a log of calls.
Count(calls, name) == Cardinality({i \in 1 .. Len(calls) : calls[i] = name})

\* The step is a call that binds (its SDL_GL_MakeCurrent succeeding), the
\* step before it was a resize event.
BindAfterResize ==
    /\ last.op = "GLES2_WindowEvent"
    /\ last.request = <<"SDL_WINDOWEVENT_RESIZED">>
    /\ last'.op \in BinderOps \cup EmitterOps
    /\ SDL_CurrentContext' = rdata'.context

\* The viewport is set once by the bind that follows a resize, and by no
\* bind while no resize is pending.
ViewportOnce ==
    /\ BindAfterResize => (Count(last'.calls, "glViewport") = 1 /\ ~rdata'.updateSize)
    /\ (~rdata.updateSize /\ last'.op \in BinderOps \cup EmitterOps)
          => Count(last'.calls, "glViewport") = 0

\* C12: a resize event followed by a bind call sets the viewport exactly
\* once and, the renderer's context being the one it was (it never
\* changes), leaves the active program as it was: a select that follows for
\* the pair of the active program makes no glUseProgram call.
C12_ResizeKeepsProgram ==
    [][/\ ViewportOnce
       /\ (BindAfterResize /\ last'.op \in BinderOps)
             => rdata'.current_program = rdata.current_program
       /\ (BindAfterResize /\ last'.op \in EmitterOps /\ last'.sel = 0
              /\ rdata.current_program # NULL
              /\ rdata'.current_program = rdata.current_program)
             => ~Made(last'.calls, "glUseProgram")]_vars

\* C12 as the code has it: a resize event followed by a bind call sets the
\* viewport exactly once and resets the active-program tracker, the context
\* being the one it was: a clear or present leaves the tracker at none, and
\* a draw that selects its program uses it again (glUseProgram) and uploads
\* the projection again, also when it is the program that was active.
C12_ResizeResetsProgram ==
    [][/\ ViewportOnce
       /\ (BindAfterResize /\ last'.op \in BinderOps)
             => rdata'.current_program = NULL
       /\ (BindAfterResize /\ last'.op \in EmitterOps /\ last'.sel = 0)
             => /\ Made(last'.calls, "glUseProgram")
                /\ Made(last'.calls, "glUniformMatrix4fv")
                /\ last'.how # "same"]_vars

\* A clear has bound the renderer after a resize, with programs cached: the
\* viewport is set, the tracker is none.
C12_Witness ==
    /\ pc = "ready"
    /\ last.op = "GLES2_RenderClear"
    /\ Count(last.calls, "glViewport") = 1
    /\ Made(last.calls, "SDL_GL_MakeCurrent")
    /\ SDL_CurrentContext = rdata.context
    /\ rdata.program_cache.count > 0
    /\ rdata.current_program = NULL

\* The step is a call that binds and finds that the tracked current context
\* is not the renderer's.
BindFindsOtherContext ==
    /\ SDL_CurrentContext # rdata.context
    /\ last'.op \in BinderOps \cup EmitterOps

\* C13: whenever a bind finds that the tracked current context differs from
\* the renderer's context, the active-program tracker is none before any
\* further GL call (SDL_GL_MakeCurrent is the first call, and the tracker is
\* none whether or not it succeeds): the select of the same call, or the
\* next one, does not take the short cut of lines 682-685 and uses a
\* program again when it succeeds.
C13_ContextChangeResetsTracker ==
    [][/\ BindFindsOtherContext => last'.calls[1] = "SDL_GL_MakeCurrent"
       /\ (BindFindsOtherContext /\ last'.op \in BinderOps)
             => rdata'.current_program = NULL
       /\ ((BindFindsOtherContext \/ rdata.current_program = NULL)
              /\ last'.op \in EmitterOps)
             => /\ last'.how # "same"
                /\ last'.sel = 0 => Made(last'.calls, "glUseProgram")
                /\ last'.sel < 0 => rdata'.current_program = NULL]_vars

\* A draw whose SDL_GL_MakeCurrent failed has found its program in the
\* cache and used it again.
C13_Witness ==
    /\ pc = "ready"
    /\ last.op \in EmitterOps
    /\ Made(last.calls, "SDL_GL_MakeCurrent")
    /\ SDL_CurrentContext # rdata.context
    /\ last.how = "hit"
    /\ last.sel = 0

(***************************************************************************)
(* Properties of the projection.                                           *)
(***************************************************************************)
DrawCalls ==
    {"glDrawArrays(GL_POINTS)", "glDrawArrays(GL_LINE_STRIP)",
     "glDrawArrays(GL_TRIANGLE_STRIP)"}

\* The glUseProgram call at place i of the log is followed at once by the
\* query of the window size and the upload of the projection.
UploadFollows(calls, i) ==
    /\ i + 2 <= Len(calls)
    /\ calls[i + 1] = "SDL_GetWindowSize"
    /\ calls[i + 2] = "glUniformMatrix4fv"

\* C14: every GLES2_SelectProgram that makes a program the active one (one
\* other than the program active before, or any after none was active)
\* calls glUseProgram and then uploads the projection, computed from the
\* window size queried then, before it returns success; a failed upload
\* makes it return failure; and no draw call follows a glUseProgram without
\* the upload in between.
C14_ProjectionFollowsUse ==
    [][last'.op \in EmitterOps =>
          /\ (rdata'.current_program # NULL
                 /\ rdata'.current_program # rdata.current_program)
                => Made(last'.calls, "glUseProgram")
          /\ \A i \in 1 .. Len(last'.calls) :
                (last'.calls[i] = "glUseProgram" /\ last'.sel = 0)
                   => /\ UploadFollows(last'.calls, i)
                      /\ last'.error = "none"
                      /\ rdata'.current_program # NULL
          /\ \A i \in 1 .. Len(last'.calls) : \A d \in i .. Len(last'.calls) :
                (last'.calls[i] = "glUseProgram" /\ last'.calls[d] \in DrawCalls)
                   => (UploadFollows(last'.calls, i) /\ i + 2 < d /\ last'.sel = 0)]_vars

\* A draw has made a second program the active one and drawn with it.
C14_Witness ==
    /\ pc = "ready"
    /\ last.op \in EmitterOps
    /\ last.ret = 0
    /\ Made(last.calls, "glUseProgram")
    /\ \E d \in 1 .. Len(last.calls) : last.calls[d] \in DrawCalls
    /\ rdata.program_cache.count > 1
    /\ rdata.current_program = rdata.program_cache.head

(***************************************************************************)
(* Properties of the shader cache.                                         *)
(***************************************************************************)
\* The candidates of a shader whose format the platform's list holds.
Supported(shader, formats) ==
    {i \in 1 .. Len(shader.instances) :
        \E j \in 1 .. Len(formats) : InstanceFormat(shader.instances[i]) = formats[j]}

\* The earliest supported candidate, in the order of the candidate list.
FirstMatch(shader, formats) ==
    shader.instances[CHOOSE i \in Supported(shader, formats) :
                        \A k \in Supported(shader, formats) : i <= k]

\* C15: the variant a shader is resolved to is the first match: of the
\* shader's candidates whose format is in the platform's format list, the
\* one with the lowest index.
C15_FirstMatchWins ==
    \A s \in DOMAIN shaders :
        shaders[s].instance
           = FirstMatch(GLES2_GetShader(shaders[s].type, shaders[s].instance[2]),
                        rdata.shader_formats)

\* The shader entries that the program entries of heap pr reference.
ReferencedShaders(pr) ==
    {pr[p].vertex_shader : p \in DOMAIN pr} \cup {pr[p].fragment_shader : p \in DOMAIN pr}

\* C16: the shader cache is bounded through the program cache: between
\* operations every shader cache entry is referenced by a program cache
\* entry, of which there are at most GLES2_MAX_CACHED_PROGRAMS, so the
\* shader cache holds at most two entries per program entry and at most
\* 2 x 8 = 16 entries.
C16_ShaderCacheBounded ==
    pc = "ready" =>
        /\ DOMAIN shaders \subseteq ReferencedShaders(progs)
        /\ Cardinality(DOMAIN progs) = rdata.program_cache.count
        /\ rdata.program_cache.count <= GLES2_MAX_CACHED_PROGRAMS
        /\ rdata.shader_cache.count = Cardinality(DOMAIN shaders)
        /\ rdata.shader_cache.count <= 2 * rdata.program_cache.count
        /\ rdata.shader_cache.count <= 2 * GLES2_MAX_CACHED_PROGRAMS

\* The cache is full and programs were evicted: of the shaders created, the
\* ones of the evicted programs are gone, the cache holds a fragment shader
\* per program and the vertex shader.
C16_Witness ==
    /\ pc = "ready"
    /\ evictions = MaxEvictions
    /\ rdata.program_cache.count = GLES2_MAX_CACHED_PROGRAMS
    /\ rdata.shader_cache.count = GLES2_MAX_CACHED_PROGRAMS + 1
    /\ blendsSeen > GLES2_MAX_CACHED_PROGRAMS

\* The number of program entries evicted in the step that referenced a
\* shader entry.
EvictedReferences(shaderEntry) ==
      Cardinality({i \in 1 .. Len(last'.evicted) :
                      last'.evicted[i].vertex_shader = shaderEntry})
    + Cardinality({i \in 1 .. Len(last'.evicted) :
                      last'.evicted[i].fragment_shader = shaderEntry})

\* C17: a shader is destroyed only when its reference count is zero: a
\* shader destroyed in a step was created in it, or every reference it had
\* was one of a program entry evicted in the step; no program entry
\* references it afterwards.  So between operations the shaders of every
\* program entry, the active program's among them, are in the shader cache.
C17_DestroyedAtZeroReferences ==
    [][/\ \A s \in last'.freedShaders :
             /\ s \notin DOMAIN shaders'
             /\ References(progs', s) = 0
             /\ s \in DOMAIN shaders
                   => shaders[s].references = EvictedReferences(s)
       /\ pc' = "ready" =>
             /\ ReferencedShaders(progs') \subseteq DOMAIN shaders'
             /\ rdata'.current_program # NULL
                   => /\ rdata'.current_program \in DOMAIN progs'
                      /\ progs'[rdata'.current_program].vertex_shader
                            \in ShaderList(shaders', rdata'.shader_cache)
                      /\ progs'[rdata'.current_program].fragment_shader
                            \in ShaderList(shaders', rdata'.shader_cache)]_vars

\* A draw has evicted a program and destroyed a shader, and left a program
\* active.
C17_Witness ==
    /\ pc = "ready"
    /\ last.evicted # <<>>
    /\ last.freedShaders # {}
    /\ rdata.current_program \in DOMAIN progs
    /\ progs[rdata.current_program].vertex_shader \in DOMAIN shaders
    /\ shaders[progs[rdata.current_program].vertex_shader].references
          = GLES2_MAX_CACHED_PROGRAMS

(***************************************************************************)
(* Properties of the program selection after failures.                     *)
(***************************************************************************)
\* The platform has a variant of the vertex shader and of the fragment
\* shader of the configuration.
ConfigSupported(op, blendMode) ==
    /\ GLES2_GetShader(FragmentType(Source(op)), blendMode).defined
    /\ ~NoVariant(GLES2_SHADER_VERTEX_DEFAULT, blendMode)
    /\ ~NoVariant(FragmentType(Source(op)), blendMode)

\* The errors of calls that fail in the GL or in the allocator.
CallErrors ==
    {"OutOfMemory", "ShaderCompileError", "ProgramLinkError", "ProgramBindError",
     "UniformUploadError"}

\* The step is a select for a supported configuration in which no call
\* fails, and the select before it failed for want of a shader variant.
SelectAfterUnsupported ==
    /\ last.op \in EmitterOps
    /\ last.error \in {"UnsupportedShader", "UnsupportedPlatform"}
    /\ last'.op \in EmitterOps
    /\ ConfigSupported(last'.op, last'.request[1])
    /\ last'.error \notin CallErrors

\* C18: after GLES2_SelectProgram has failed for a configuration that has
\* no compatible shader variant, a select for a supported configuration, all
\* of its calls succeeding, returns success and leaves the program of that
\* configuration active, however many failed selects came before.
C18_UsableAfterUnsupported ==
    [][SelectAfterUnsupported =>
          /\ pc' = "ready"
          /\ last'.sel = 0
          /\ rdata'.current_program \in DOMAIN progs'
          /\ progs'[rdata'.current_program].blend_mode = last'.request[1]
          /\ shaders'[progs'[rdata'.current_program].fragment_shader].type
                = FragmentType(Source(last'.op))]_vars

(***************************************************************************)
(* Properties of the eviction.                                             *)
(***************************************************************************)
\* The highest value of program_cache.count inside the step: every eviction
\* takes one from it (line 537), so it is the count left plus the number of
\* evictions.
PeakCount == rdata'.program_cache.count + Len(last'.evicted)

\* The step has created a program entry.
Inserted == DOMAIN progs' \ DOMAIN progs # {}

\* C19: an acquire evicts at most one program entry, and one only when its
\* own insertion raised the count above GLES2_MAX_CACHED_PROGRAMS (the cache
\* was full, the pair was not cached, the entry was created); the count is
\* never more than one above the capacity inside an acquire; a hit, a select
\* answered from the active program and a failed acquire evict nothing and
\* leave the count as it was.
C19_AtMostOneEviction ==
    [][last'.op \in EmitterOps =>
          /\ Len(last'.evicted) <= 1
          /\ PeakCount <= GLES2_MAX_CACHED_PROGRAMS + 1
          /\ last'.evicted # <<>>
                <=> (Inserted
                       /\ rdata.program_cache.count = GLES2_MAX_CACHED_PROGRAMS)
          /\ last'.evicted # <<>> => PeakCount = rdata.program_cache.count + 1
          /\ (last'.how \in {"hit", "same"}
                 \/ last'.error \in {"OutOfMemory", "ProgramLinkError"})
                => /\ last'.evicted = <<>>
                   /\ rdata'.program_cache.count = rdata.program_cache.count
                   /\ DOMAIN progs' = DOMAIN progs]_vars

\* After a hit and a failed acquire, an insertion into the full cache has
\* evicted one entry.
C19_Witness ==
    /\ pc = "ready"
    /\ last.how = "miss"
    /\ Len(last.evicted) = 1
    /\ rdata.program_cache.count = GLES2_MAX_CACHED_PROGRAMS
    /\ promotions = MaxPromotions
    /\ failures = MaxFailures

(***************************************************************************)
(* Properties of the shader cache's lookup.                                *)
(***************************************************************************)
\* The shader list from an entry on, in the order of the scan of lines
\* 579-588.
RECURSIVE ShaderSeq(_, _, _)
ShaderSeq(sh, entry, seen) ==
    IF entry = NULL \/ entry \in seen THEN <<>>
    ELSE <<entry>> \o ShaderSeq(sh, sh[entry].next, seen \cup {entry})

\* The shader cache holds an entry of the variant that the shader of a type
\* and blend mode is resolved to on the platform.
VariantCached(type, blendMode) ==
    /\ GLES2_GetShader(type, blendMode).defined
    /\ \E s \in DOMAIN shaders :
          shaders[s].instance
             = FindInstance(GLES2_GetShader(type, blendMode), rdata.shader_formats,
                            1, NoInstance)

\* The step is a select both of whose shaders are cached.
BothCached ==
    /\ last'.op \in EmitterOps
    /\ VariantCached(GLES2_SHADER_VERTEX_DEFAULT, last'.request[1])
    /\ VariantCached(FragmentType(Source(last'.op)), last'.request[1])

\* C20: the shader cache deduplicates by resolved variant.  A select whose
\* shaders are both cached creates no GL shader and leaves the shader list
\* in its order (less what an eviction takes out), and the whole shader
\* cache, counts and reference counts, as it was unless a program entry is
\* created; a select whose vertex shader is cached creates one shader at
\* most; the shader cache never holds two entries of one variant.
C20_ShaderCacheDeduplicates ==
    [][/\ BothCached =>
             /\ ~Made(last'.calls, "glCreateShader")
             /\ ShaderSeq(shaders', rdata'.shader_cache.head, {})
                   = Only(ShaderSeq(shaders, rdata.shader_cache.head, {}),
                          DOMAIN shaders')
             /\ ~Inserted => (shaders' = shaders
                                /\ rdata'.shader_cache = rdata.shader_cache)
       /\ (last'.op \in EmitterOps
              /\ VariantCached(GLES2_SHADER_VERTEX_DEFAULT, last'.request[1]))
             => Count(last'.calls, "glCreateShader") <= 1
       /\ \A s, t \in DOMAIN shaders' :
             shaders'[s].instance = shaders'[t].instance => s = t]_vars

\* A draw has found its vertex shader cached and created its fragment
\* shader: the vertex shader is shared by two programs.
C20_Witness ==
    /\ pc = "ready"
    /\ last.op \in EmitterOps
    /\ last.how = "miss"
    /\ Count(last.calls, "glCreateShader") = 1
    /\ rdata.shader_cache.count = 3
    /\ \E s \in DOMAIN shaders :
          shaders[s].type = GLES2_SHADER_VERTEX_DEFAULT /\ shaders[s].references = 2

(***************************************************************************)
(* Properties of the failed acquires.                                      *)
(***************************************************************************)
ShaderTypes ==
    {GLES2_SHADER_VERTEX_DEFAULT, GLES2_SHADER_FRAGMENT_SOLID_SRC,
     GLES2_SHADER_FRAGMENT_TEXTURE_SRC}

\* The blend modes the acquires are tried with in every state: the ones the
\* application of Spec draws with (their shaders are in the cache at times),
\* one more (never in the cache), and the one that has no shader.
ProbedBlendModes ==
    {BlendUndefined, BlendBinaryOnly} \cup 1 .. (NumDrawBlend + 1)

\* What GLES2_CacheShader does in the state when its allocation (alloc) or
\* its compile or load (~alloc) fails: when the call comes to create a
\* shader, it returns NULL and leaves the driver data and the shader heap as
\* they are; the GL shader created is deleted.
ShaderAcquireFails(type, blendMode, alloc) ==
    LET r == GLES2_CacheShader(Now, type, blendMode, alloc, ~alloc)
    IN r.m.points # {} =>
          /\ r.entry = NULL
          /\ r.error = (IF alloc THEN "OutOfMemory" ELSE "ShaderCompileError")
          /\ r.m.rdata = rdata
          /\ r.m.shaders = shaders
          /\ r.m.progs = progs
          /\ alloc => r.m.calls = <<>>
          /\ ~alloc => (/\ Len(r.m.calls) = 3
                        /\ r.m.calls[1] = "glCreateShader"
                        /\ r.m.calls[3] = "glDeleteShader")

\* C21: when compiling or loading a new shader fails, or its entry cannot
\* be allocated, GLES2_CacheShader returns failure, the GL shader created is
\* deleted, and the shader list and count are as before the call (in every
\* state, for every shader); a select that fails so leaves the shader cache
\* as it was before the select and has deleted every shader it created.
C21_FailedShaderLeavesCache ==
    [][/\ \A type \in ShaderTypes : \A blendMode \in ProbedBlendModes :
             \A alloc \in BOOLEAN : ShaderAcquireFails(type, blendMode, alloc)
       /\ (last'.op \in EmitterOps /\ last'.error = "ShaderCompileError")
             => /\ last'.sel < 0
                /\ shaders' = shaders
                /\ rdata'.shader_cache = rdata.shader_cache
                /\ Count(last'.calls, "glDeleteShader")
                      = Count(last'.calls, "glCreateShader")]_vars

\* A select has failed to compile a shader, with shaders in the cache.
C21_Witness ==
    /\ pc = "ready"
    /\ last.op \in EmitterOps
    /\ last.error = "ShaderCompileError"
    /\ Made(last.calls, "glDeleteShader")
    /\ rdata.shader_cache.count >= 2

\* The calls that GLES2_CacheProgram has added to the log of m.
AddedCalls(before, after) == SubSeq(after.calls, Len(before.calls) + 1, Len(after.calls))

\* What GLES2_CacheProgram does, called as GLES2_SelectProgram calls it in
\* the state (p on the memory f.m that the two shader lookups left), when
\* its allocation (alloc) or its link (~alloc) fails: when the call comes to
\* create a program, it returns NULL and leaves the driver data, the
\* program heap and the shader heap as they are; the GL program created is
\* deleted.
ProgramAcquireFailed(v, f, p, alloc) ==
    (v.entry # NULL /\ f.entry # NULL /\ "program_link" \in p.m.points) =>
        /\ p.entry = NULL
        /\ p.how = (IF alloc THEN "OutOfMemory" ELSE "ProgramLinkError")
        /\ p.m.rdata = f.m.rdata
        /\ p.m.progs = f.m.progs
        /\ p.m.shaders = f.m.shaders
        /\ AddedCalls(f.m, p.m)
              = (IF alloc THEN <<>>
                 ELSE <<"glCreateProgram", "glLinkProgram", "glDeleteProgram">>)

ProgramAcquireFails(source, blendMode, alloc) ==
    \A v \in {GLES2_CacheShader(Now, GLES2_SHADER_VERTEX_DEFAULT, blendMode,
                                 FALSE, FALSE)} :
      \A f \in {GLES2_CacheShader(v.m, FragmentType(source), blendMode, FALSE, FALSE)} :
        \A p \in {GLES2_CacheProgram(f.m, v.entry, f.entry, blendMode, alloc, ~alloc)} :
            ProgramAcquireFailed(v, f, p, alloc)

\* C22: when linking a new program fails, or its entry cannot be allocated,
\* GLES2_CacheProgram returns failure, the GL program created is deleted,
\* the program list and count are as before the call, and no shader's
\* reference count nor the shader cache is changed by it (in every state,
\* for every configuration); a select that fails so leaves the program
\* cache as it was, and the shader cache too, its own cleanup having
\* destroyed the shaders it created.
C22_FailedProgramLeavesCache ==
    [][/\ \A source \in {GLES2_IMAGESOURCE_SOLID, GLES2_IMAGESOURCE_TEXTURE} :
             \A blendMode \in ProbedBlendModes : \A alloc \in BOOLEAN :
                 ProgramAcquireFails(source, blendMode, alloc)
       /\ (last'.op \in EmitterOps /\ last'.error = "ProgramLinkError")
             => /\ last'.sel < 0
                /\ progs' = progs
                /\ rdata'.program_cache = rdata.program_cache
                /\ shaders' = shaders
                /\ rdata'.shader_cache = rdata.shader_cache
                /\ Count(last'.calls, "glDeleteProgram") = 1
                /\ last'.evicted = <<>>]_vars

\* A select has failed to link a program, with programs in the cache.
C22_Witness ==
    /\ pc = "ready"
    /\ last.op \in EmitterOps
    /\ last.error = "ProgramLinkError"
    /\ Made(last.calls, "glDeleteProgram")
    /\ rdata.program_cache.count >= 1

(***************************************************************************)
(* Properties of the program selected.                                     *)
(***************************************************************************)
\* The shader entry is the one of the variant that the shader of a type and
\* blend mode is resolved to on the platform.
EntryOfVariant(shaderEntry, type, blendMode) ==
    /\ shaderEntry \in ShaderList(shaders, rdata.shader_cache)
    /\ shaders[shaderEntry].type = type
    /\ shaders[shaderEntry].instance
          = FindInstance(GLES2_GetShader(type, blendMode), rdata.shader_formats,
                         1, NoInstance)

\* C23: after a successful GLES2_SelectProgram(source, blendMode) the active
\* program's vertex shader is the entry of the resolved variant of the
\* default vertex shader for the blend mode, and its fragment shader the
\* entry of the resolved variant of the solid fragment shader (solid source)
\* or of the texture fragment shader (texture source) for the blend mode.
C23_ActiveProgramMatchesRequest ==
    (pc = "ready" /\ last.op \in EmitterOps /\ last.sel = 0) =>
        /\ rdata.current_program \in ProgramList
        /\ EntryOfVariant(progs[rdata.current_program].vertex_shader,
                          GLES2_SHADER_VERTEX_DEFAULT, last.request[1])
        /\ EntryOfVariant(progs[rdata.current_program].fragment_shader,
                          IF last.op = "GLES2_RenderCopy"
                          THEN GLES2_SHADER_FRAGMENT_TEXTURE_SRC
                          ELSE GLES2_SHADER_FRAGMENT_SOLID_SRC,
                          last.request[1])

\* A textured draw has found its program in the cache and made it the
\* active one, with a solid program cached too.
C23_Witness ==
    /\ pc = "ready"
    /\ last.op = "GLES2_RenderCopy"
    /\ last.sel = 0
    /\ last.how = "hit"
    /\ rdata.program_cache.count > 1
    /\ rdata.current_program # NULL

(***************************************************************************)
(* Properties of a failed bind.                                            *)
(***************************************************************************)
\* What GLES2_ActivateRenderer does in the state when SDL_GL_MakeCurrent
\* fails.
BindFails(r) ==
    /\ r.ret = -1
    /\ r.m.SDL_CurrentContext = SDL_CurrentContext
    /\ r.m.rdata = [rdata EXCEPT !.current_program = NULL]
    /\ r.m.calls = <<"SDL_GL_MakeCurrent">>
    /\ r.m.shaders = shaders
    /\ r.m.progs = progs

\* The step is an operation whose SDL_GL_MakeCurrent has failed.
MakeCurrentFailed ==
    /\ last'.op \in BinderOps \cup EmitterOps
    /\ Made(last'.calls, "SDL_GL_MakeCurrent")
    /\ SDL_CurrentContext' # rdata'.context

\* C24: when making the renderer's context current fails,
\* GLES2_ActivateRenderer returns failure, the tracked current context keeps
\* the value it had, the active program is none, the viewport is not set
\* and a pending resize flag stays as it is.
C24_FailedBindChangesNothing ==
    [][/\ SDL_CurrentContext # rdata.context
             => \A r \in {GLES2_ActivateRenderer(Now, TRUE)} : BindFails(r)
       /\ MakeCurrentFailed =>
             /\ SDL_CurrentContext' = SDL_CurrentContext
             /\ rdata'.updateSize = rdata.updateSize
             /\ ~Made(last'.calls, "glViewport")
             /\ last'.op \in BinderOps
                   => rdata' = [rdata EXCEPT !.current_program = NULL]]_vars

\* A clear whose SDL_GL_MakeCurrent failed after a resize: the resize is
\* still pending, no program is active.
C24_Witness ==
    /\ pc = "ready"
    /\ last.op = "GLES2_RenderClear"
    /\ Made(last.calls, "SDL_GL_MakeCurrent")
    /\ SDL_CurrentContext # rdata.context
    /\ rdata.updateSize
    /\ rdata.current_program = NULL
    /\ rdata.program_cache.count > 0

\* C25: every GL call of an operation is made while the tracked current
\* context is the renderer's: an operation whose bind fails (the tracked
\* context is not the renderer's when it returns) has made no call but
\* SDL_GL_MakeCurrent (no program selection, no draw call, no clear), and an
\* emitter whose bind fails returns failure.
C25_CallsOnlyWhileCurrent ==
    [][(last'.op \in BinderOps \cup EmitterOps
          /\ SDL_CurrentContext' # rdata'.context)
         => /\ last'.calls = <<"SDL_GL_MakeCurrent">>
            /\ last'.how = "none"
            /\ last'.op \in EmitterOps => last'.ret < 0]_vars

(***************************************************************************)
(* Properties of the window events and the viewport.                       *)
(***************************************************************************)
WindowEventStep == last'.op = "GLES2_WindowEvent"

ResizeStep == WindowEventStep /\ last'.request = <<"SDL_WINDOWEVENT_RESIZED">>

\* C26: a resize event sets updateSize and clears the tracked current
\* context and does nothing else: no GL call, and the active program, the
\* program cache, the shader cache and the viewport stay as they were. Any
\* other window event leaves the whole state of the renderer as it was.
C26_WindowEventTouchesNoGLState ==
    [][WindowEventStep =>
          /\ last'.calls = <<>>
          /\ shaders' = shaders
          /\ progs' = progs
          /\ gl' = gl
          /\ IF ResizeStep
             THEN /\ rdata' = [rdata EXCEPT !.updateSize = TRUE]
                  /\ SDL_CurrentContext' = NULL
             ELSE /\ rdata' = rdata
                  /\ SDL_CurrentContext' = SDL_CurrentContext
                  /\ window' = window]_vars

\* A resize event has come to a renderer that was drawing: the window has
\* its new size, the viewport still the old one.
C26_Witness ==
    /\ last.op = "GLES2_WindowEvent"
    /\ last.request = <<"SDL_WINDOWEVENT_RESIZED">>
    /\ rdata.updateSize
    /\ SDL_CurrentContext = NULL
    /\ rdata.current_program # NULL
    /\ rdata.program_cache.count = 2
    /\ gl.viewport # <<0, 0, window.w, window.h>>

\* The operation has bound the renderer's context, or found it bound.
BindSucceeded ==
    /\ last'.op \in BinderOps \cup EmitterOps
    /\ SDL_CurrentContext' = rdata'.context

\* Position of the first call of that name in the log, 0 when there is none.
FirstCall(calls, name) ==
    IF Made(calls, name)
    THEN CHOOSE i \in 1 .. Len(calls) :
            calls[i] = name /\ \A j \in 1 .. i - 1 : calls[j] # name
    ELSE 0

\* glViewport is called once, directly after SDL_GetWindowSize and before
\* any other GL call of the operation.
ViewportSetFirst(calls) ==
    /\ Count(calls, "glViewport") = 1
    /\ FirstCall(calls, "glViewport") = FirstCall(calls, "SDL_GetWindowSize") + 1
    /\ \A i \in 1 .. FirstCall(calls, "SDL_GetWindowSize") - 1 :
          calls[i] = "SDL_GL_MakeCurrent"

\* C27: resize events only keep updateSize set, however many come; the
\* next operation whose bind succeeds calls glViewport exactly once, with
\* the size SDL_GetWindowSize returns in that bind, and clears updateSize;
\* an operation that finds updateSize clear does not call glViewport, and
\* the viewport stays as it was.
C27_ViewportFollowsResize ==
    [][/\ ResizeStep => rdata'.updateSize
       /\ (BindSucceeded /\ rdata.updateSize) =>
             /\ ViewportSetFirst(last'.calls)
             /\ gl'.viewport = <<0, 0, window.w, window.h>>
             /\ ~rdata'.updateSize
       /\ (last'.op \in BinderOps \cup EmitterOps /\ ~rdata.updateSize) =>
             /\ ~Made(last'.calls, "glViewport")
             /\ gl'.viewport = gl.viewport
             /\ ~rdata'.updateSize]_vars

\* The window was created with one size and resized: a clear has set the
\* viewport to the new size.
C27_Witness ==
    /\ last.op = "GLES2_RenderClear"
    /\ last.calls = <<"SDL_GL_MakeCurrent", "SDL_GetWindowSize", "glViewport",
                      "glClearColor", "glClear">>
    /\ window = WindowSize(3, 2)
    /\ gl.viewport = <<0, 0, 3, 2>>
    /\ \E program \in DOMAIN gl.u_projection :
          gl.u_projection[program] = OrthographicProjection(640, 480)
    /\ ~rdata.updateSize

(***************************************************************************)
(* Properties of the draw emitters.                                        *)
(***************************************************************************)
UniformCalls == {"glUniform4f", "glUniform1i", "glActiveTexture", "glBindTexture"}

EnableCalls == {"glEnableVertexAttribArray(POSITION)",
                "glEnableVertexAttribArray(TEXCOORD)"}

DisableCalls == {"glDisableVertexAttribArray(POSITION)",
                 "glDisableVertexAttribArray(TEXCOORD)"}

\* The step of an emitter a call belongs to: 1 bind, 2 select, 3 per-draw
\* uniforms, 4 blend state, 5 attributes enabled, 6 draw (the vertices set
\* and drawn), 7 attributes disabled. SDL_GetWindowSize belongs where the
\* call after it does (glViewport or glUniformMatrix4fv).
RECURSIVE EmitterStep(_, _)
EmitterStep(calls, i) ==
    CASE calls[i] = "SDL_GetWindowSize" -> EmitterStep(calls, i + 1)
      [] calls[i] \in {"SDL_GL_MakeCurrent", "glViewport"} -> 1
      [] calls[i] \in UniformCalls -> 3
      [] calls[i] = "GLES2_SetBlendMode" -> 4
      [] calls[i] \in EnableCalls -> 5
      [] calls[i] \in DrawCalls \cup {"glVertexAttribPointer"} -> 6
      [] calls[i] \in DisableCalls -> 7
      [] OTHER -> 2

\* The same with the per-draw uniforms and the blend state as one step.
EmitterStepMerged(calls, i) ==
    IF EmitterStep(calls, i) = 4 THEN 3 ELSE EmitterStep(calls, i)

\* No call of the emitter's own steps (3 to 7) was made.
SelectOnly(calls) == \A i \in 1 .. Len(calls) : EmitterStep(calls, i) <= 2

EmitterReturned == pc = "ready" /\ last.op \in EmitterOps

\* What is said of the selection in an emitter: the emitter's own calls
\* are made only after GLES2_SelectProgram returned 0, and a failed
\* selection makes the emitter return -1 with no current program.
SelectGuardsDraw ==
    /\ ~SelectOnly(last.calls) =>
          last.sel = 0 /\ last.how \in {"same", "hit", "miss"}
    /\ last.sel < 0 =>
          /\ last.ret = -1
          /\ rdata.current_program = NULL
          /\ SelectOnly(last.calls)
    /\ last.sel = 0 => \E i \in 1 .. Len(last.calls) : last.calls[i] \in DrawCalls

\* C28 as stated: the calls of an emitter come in the order bind, select,
\* per-draw uniforms, blend state, attributes enabled, draw, attributes
\* disabled.
C28_EmitterOrder ==
    EmitterReturned =>
        /\ \A i, j \in 1 .. Len(last.calls) :
              i < j => EmitterStep(last.calls, i) <= EmitterStep(last.calls, j)
        /\ SelectGuardsDraw

\* C28, restated: the order is bind, select, per-draw uniforms together
\* with the blend state (GLES2_RenderCopy uploads the texture unit, sets the
\* blend state, then uploads the colour modulation), attributes enabled,
\* draw, attributes disabled; the emitter's own calls are made only after
\* GLES2_SelectProgram returned 0, and a failed selection makes the emitter
\* return -1 with no current program.
C28_EmitterOrderMerged ==
    EmitterReturned =>
        /\ \A i, j \in 1 .. Len(last.calls) :
              i < j => EmitterStepMerged(last.calls, i)
                          <= EmitterStepMerged(last.calls, j)
        /\ last.op # "GLES2_RenderCopy" =>
              \A i, j \in 1 .. Len(last.calls) :
                 i < j => EmitterStep(last.calls, i) <= EmitterStep(last.calls, j)
        /\ SelectGuardsDraw

\* A textured draw that bound the context, set the viewport, built its
\* program and drew.
C28_Witness ==
    /\ EmitterReturned
    /\ last.op = "GLES2_RenderCopy"
    /\ last.ret = 0
    /\ last.how = "miss"
    /\ Made(last.calls, "glViewport")
    /\ Made(last.calls, "glUniformMatrix4fv")
    /\ Made(last.calls, "glDrawArrays(GL_TRIANGLE_STRIP)")

Attributes == {"POSITION", "TEXCOORD"}

\* The vertex attribute arrays enabled after the calls from place i on,
\* when those of the set enabled were enabled before.
RECURSIVE EnabledArrays(_, _, _)
EnabledArrays(calls, i, enabled) ==
    IF i > Len(calls) THEN enabled
    ELSE EnabledArrays(calls, i + 1,
            (enabled \cup {a \in Attributes :
                              calls[i] = "glEnableVertexAttribArray(" \o a \o ")"})
               \ {a \in Attributes :
                      calls[i] = "glDisableVertexAttribArray(" \o a \o ")"})

\* C29: when an emitter returns, with success or with failure (a failed
\* selection, an error reported by glGetError after the draw call), no
\* vertex attribute array it enabled is still enabled; a draw call is made
\* with the position array enabled, a textured one with the texcoord array
\* too.
C29_AttributesDisabledOnReturn ==
    EmitterReturned =>
        /\ EnabledArrays(last.calls, 1, {}) = {}
        /\ \A i \in 1 .. Len(last.calls) :
              last.calls[i] \in DrawCalls =>
                 EnabledArrays(SubSeq(last.calls, 1, i), 1, {}) =
                    IF last.op = "GLES2_RenderCopy" THEN Attributes
                    ELSE {"POSITION"}

\* A textured draw for which glGetError reported an error after the draw
\* call.
C29_Witness ==
    /\ EmitterReturned
    /\ last.op = "GLES2_RenderCopy"
    /\ last.sel = 0
    /\ last.ret = -1
    /\ Made(last.calls, "glDrawArrays(GL_TRIANGLE_STRIP)")
    /\ Made(last.calls, "glDisableVertexAttribArray(TEXCOORD)")

(***************************************************************************)
(* Properties of the orthographic projection.                              *)
(***************************************************************************)
RatAdd(a, b) == Rat(a.num * b.den + b.num * a.den, a.den * b.den)

RatMul(a, b) == Rat(a.num * b.num, a.den * b.den)

RatEq(a, b) == a.num * b.den = b.num * a.den

\* The vertex shader's u_projection * v for a matrix passed with
\* transpose GL_FALSE (line 752): projection[i] is column i, so row j of the
\* product is the sum over i of projection[i][j] * v[i].
Transform(projection, v) ==
    [j \in 1 .. 4 |->
        RatAdd(RatAdd(RatMul(projection[1][j], v[1]),
                      RatMul(projection[2][j], v[2])),
               RatAdd(RatMul(projection[3][j], v[3]),
                      RatMul(projection[4][j], v[4])))]

\* The position the vertex shader is given for pixel (x, y).
Pixel(x, y) == <<Rat(x, 1), Rat(y, 1), RatZero, RatOne>>

\* The pixels looked at in a window of that size: its corners, the pixels
\* next to them, its centre, and the corners of an 800 x 600 window.
Pixels(size) ==
    {<<x, y>> : x \in {0, 1, size.w \div 2, size.w - 1, size.w, 800},
                y \in {0, 1, size.h \div 2, size.h - 1, size.h, 600}}

\* The matrix maps pixel (x, y) of a w x h window to
\* (2x/w - 1, 1 - 2y/h, z, w), z and w as they were.
MapsToNDC(projection, size) ==
    \A p \in Pixels(size), z \in {0, 1} :
        LET v == [Pixel(p[1], p[2]) EXCEPT ![3] = Rat(z, 1)]
            ndc == Transform(projection, v)
        IN /\ RatEq(ndc[1], Rat(2 * p[1] - size.w, size.w))
           /\ RatEq(ndc[2], Rat(size.h - 2 * p[2], size.h))
           /\ RatEq(ndc[3], v[3])
           /\ RatEq(ndc[4], v[4])

\* C30: the matrix GLES2_SetOrthographicProjection builds for a w x h
\* window maps pixel (x, y) to (2x/w - 1, 1 - 2y/h) and leaves z and w as
\* they are, for every size the window takes, and it is the matrix
\* uploaded: after a select that uploaded the projection the uniform maps
\* the pixels of the window as it is then. For 800 x 600, pixel (0, 0) goes
\* to (-1, 1) and pixel (800, 600) to (1, -1).
C30_ProjectionMapsPixelsToNDC ==
    /\ MapsToNDC(OrthographicProjection(window.w, window.h), window)
    /\ window = WindowSize(800, 600) =>
          LET origin == Transform(OrthographicProjection(window.w, window.h),
                                  Pixel(0, 0))
              corner == Transform(OrthographicProjection(window.w, window.h),
                                  Pixel(800, 600))
          IN /\ RatEq(origin[1], Rat(-1, 1))
             /\ RatEq(origin[2], Rat(1, 1))
             /\ RatEq(corner[1], Rat(1, 1))
             /\ RatEq(corner[2], Rat(-1, 1))
    /\ (Made(last.calls, "glUniformMatrix4fv") /\ last.sel = 0) =>
          MapsToNDC(gl.u_projection[rdata.current_program], window)

\* A draw after a resize event has set the viewport and uploaded the
\* projection for the size the window has now.
C30_Witness ==
    /\ EmitterReturned
    /\ last.ret = 0
    /\ Made(last.calls, "glUniformMatrix4fv")
    /\ Made(last.calls, "glViewport")
    /\ rdata.program_cache.count = 2
    /\ window = DefaultSize
    /\ gl.u_projection[rdata.current_program] = OrthographicProjection(800, 600)
    /\ gl.viewport = <<0, 0, 800, 600>>

(***************************************************************************)
(* Properties of the shape of the program list.                            *)
(***************************************************************************)
\* Following next from entry comes to NULL without coming to an entry twice.
RECURSIVE EndsAtNull(_, _, _)
EndsAtNull(pr, entry, seen) ==
    IF entry = NULL THEN TRUE
    ELSE IF entry \in seen \/ entry \notin DOMAIN pr THEN FALSE
    ELSE EndsAtNull(pr, pr[entry].next, seen \cup {entry})

\* The list of cache in heap pr is well formed: it ends, prev undoes next,
\* no pair of shaders is there twice, count is the number of entries.
WellFormed(pr, cache) ==
    /\ EndsAtNull(pr, cache.head, {})
    /\ cache.head # NULL => pr[cache.head].prev = NULL
    /\ \A e \in CachedPrograms(pr, cache) :
          pr[e].next # NULL => pr[pr[e].next].prev = e
    /\ \A d, e \in CachedPrograms(pr, cache) :
          (/\ pr[d].vertex_shader = pr[e].vertex_shader
           /\ pr[d].fragment_shader = pr[e].fragment_shader) => d = e
    /\ cache.count = Cardinality(CachedPrograms(pr, cache))

\* C31: between operations the program list is well formed: following
\* next from the head ends at NULL with no entry met twice, prev and next
\* undo each other, no two entries hold the same pair of shaders, and count
\* is the number of entries reachable from the head.
C31_ProgramListWellFormed ==
    pc = "ready" => WellFormed(progs, rdata.program_cache)

\* The tail of cache in heap pr is the entry of the list that has no next.
TailIsLast(pr, cache) ==
    /\ cache.tail \in CachedPrograms(pr, cache)
    /\ pr[cache.tail].next = NULL

\* C32: between operations, when the program cache is not empty, tail is
\* the entry reachable from the head that has no successor; a hit on the
\* tail entry of a list of two or more, which moves it to the head, leaves
\* tail on the entry that was before it.
C32_TailIsLastEntry ==
    [][/\ (pc' = "ready" /\ rdata'.program_cache.count > 0)
             => TailIsLast(progs', rdata'.program_cache)
       /\ (/\ last'.how = "hit"
           /\ WellFormed(progs, rdata.program_cache)
           /\ rdata.program_cache.count > 1
           /\ rdata'.program_cache.head = rdata.program_cache.tail)
             => rdata'.program_cache.tail = progs[rdata.program_cache.tail].prev]_vars

\* C33: every GLES2_SelectProgram call returns: no operation is left
\* inside a scan of the program list or of the shader list that never
\* comes to the end of the list.
C33_SelectTerminates == pc # "hung"

\* A select has found, by a hit, the entry at the head of a well-formed list
\* of two or more: the program selected last, the tracker having been reset
\* since (by a bind after a resize event, or by a failure).
HitOnHead ==
    /\ last'.op \in EmitterOps
    /\ last'.how = "hit"
    /\ WellFormed(progs, rdata.program_cache)
    /\ rdata.program_cache.count >= 2
    /\ rdata'.current_program = rdata.program_cache.head

\* C34: a select that finds the head entry of the program list by a hit
\* (the pair selected last, after the tracker was reset) binds the program
\* again and leaves the program cache as it was: the same entries in the
\* same order, the same head, tail and count.
C34_HitOnHeadKeepsList ==
    [][HitOnHead =>
          /\ Made(last'.calls, "glUseProgram")
          /\ progs' = progs
          /\ rdata'.program_cache = rdata.program_cache
          /\ ProgramSeq(progs', rdata'.program_cache.head, {})
                = ProgramSeq(progs, rdata.program_cache.head, {})]_vars

(***************************************************************************)
(* Properties of the active-program tracker.                               *)
(***************************************************************************)
\* C35: between operations current_program is NULL or an entry that is
\* allocated and in the program list; an entry evicted and freed by an
\* operation is not the current program after it, also when it was the
\* current program before and glUseProgram then failed.
C35_TrackerIsCached ==
    [][pc' = "ready" =>
          /\ rdata'.current_program # NULL =>
                /\ rdata'.current_program \in DOMAIN progs'
                /\ rdata'.current_program
                      \in CachedPrograms(progs', rdata'.program_cache)
          /\ \A e \in DOMAIN progs \ DOMAIN progs' : rdata'.current_program # e]_vars

\* The cache was full and the first program drawn with once more (a hit on
\* the tail entry, which became the current program); the select for a
\* ninth program has evicted it, and its glUseProgram has failed.
C35_Witness ==
    /\ pc = "ready"
    /\ last.error = "ProgramBindError"
    /\ last.evicted # <<>>
    /\ promotions = 1
    /\ failures = 1
    /\ blendsSeen = GLES2_MAX_CACHED_PROGRAMS
    /\ rdata.current_program = NULL
    /\ rdata.program_cache.count = GLES2_MAX_CACHED_PROGRAMS

(***************************************************************************)
(* The projection after a resize.                                          *)
(***************************************************************************)
\* The projection is uploaded in the log before any draw call is made.
UploadBeforeDraw(calls) ==
    \E i \in 1 .. Len(calls) :
        /\ calls[i] = "glUniformMatrix4fv"
        /\ \A j \in 1 .. i : calls[j] \notin DrawCalls

\* The projection uniform of that program is the one for the window's size.
ProjectionCurrent(g, program, size) ==
    /\ program \in DOMAIN g.u_projection
    /\ g.u_projection[program] = OrthographicProjection(size.w, size.h)

\* The step is an emitter returning success, the first operation since
\* the window was given another size than the draw before had.
FirstDrawAfterResize ==
    /\ last'.op \in EmitterOps
    /\ last'.ret = 0
    /\ last'.drawnAt \notin {NoSize, window}

TimesFreed(destroyed, shaderEntry) ==
    Cardinality({i \in 1 .. Len(destroyed) :
                    destroyed[i].vertex_shader = shaderEntry})
    + Cardinality({i \in 1 .. Len(destroyed) :
                      destroyed[i].fragment_shader = shaderEntry})

\* C38: GLES2_DestroyRenderer deletes and frees every cached shader and
\* every cached program exactly once, as many GL objects as there are
\* entries, and does nothing undefined (the process goes on).
C38_DestroysEachObjectOnce ==
    [][last'.op = "GLES2_DestroyRenderer" =>
          /\ \A s \in DOMAIN shaders : TimesFreed(last'.evicted, s) = 1
          /\ \A p \in DOMAIN progs :
                Cardinality({i \in 1 .. Len(last'.evicted) :
                                last'.evicted[i].entry = p}) = 1
          /\ Count(last'.calls, "glDeleteShader") = Cardinality(DOMAIN shaders)
          /\ Count(last'.calls, "glDeleteProgram") = Cardinality(DOMAIN progs)
          /\ pc' = "destroyed"]_vars

(***************************************************************************)
(* Two renderers.                                                          *)
(***************************************************************************)
\* C36: when GLES2_SelectProgram returns at its short-circuit, the context
\* current is the renderer's own and the program in use in it is the one
\* current_program records.
C36_ShortCircuitSkipsNoBind ==
    [][(last'.op \in EmitterOps /\ last'.how = "same") =>
          /\ gl'.context = rdata'.context
          /\ gl'.program = rdata'.current_program]_vars

=============================================================================
